---- MODULE Spec2Model ----
(***************************************************************************)
(* Model of the Jira MCP server: the resilient HTTP client                 *)
(* (src/src/client.ts: the retry loop of jiraFetch / jiraAgileFetch, the   *)
(* per-attempt abort timer, the backoff computation and the error          *)
(* classification, the shared HTTPS agent), the in-memory cache            *)
(* (src/src/cache.ts), the configuration and the response formatter        *)
(* (src/src/config.ts) and the issue and search-result transformers.       *)
(*                                                                         *)
(* Time is counted in whole milliseconds.  JavaScript numbers that can     *)
(* leave the integers (NaN, Infinity) are records [k, v]: k is "num",      *)
(* "inf" or "nan" and v the value of a "num".                              *)
(***************************************************************************)
EXTENDS Integers, Sequences, FiniteSets, TLC

VARIABLES req, bk, store, now, wc, obs, env, cachedConfig, cfgObs, pf, tr, sr,
          tt, httpsAgent

vars ==
    <<req, bk, store, now, wc, obs, env, cachedConfig, cfgObs, pf, tr, sr, tt,
      httpsAgent>>

\* what the actions of one component leave alone
notClient ==
    <<bk, store, now, wc, obs, env, cachedConfig, cfgObs, pf, tr, sr, tt>>

notReq == <<notClient, httpsAgent>>

notBk ==
    <<req, store, now, wc, obs, env, cachedConfig, cfgObs, pf, tr, sr, tt,
      httpsAgent>>

notCache == <<req, bk, env, cfgObs, pf, tr, sr, tt, httpsAgent>>

notConfig == <<req, bk, store, now, wc, obs, pf, tr, sr, tt, httpsAgent>>

notPf ==
    <<req, bk, store, now, wc, obs, env, cachedConfig, cfgObs, tr, sr, tt,
      httpsAgent>>

notTr ==
    <<req, bk, store, now, wc, obs, env, cachedConfig, cfgObs, pf, sr, tt,
      httpsAgent>>

notSr ==
    <<req, bk, store, now, wc, obs, env, cachedConfig, cfgObs, pf, tr, tt,
      httpsAgent>>

notTt ==
    <<req, bk, store, now, wc, obs, env, cachedConfig, cfgObs, pf, tr, sr,
      httpsAgent>>

-----------------------------------------------------------------------------
(* Bounds of the model *)

\* largest non-negative retry count a configuration of the model carries
MaxRetry == 2

\* largest attempt index handed to calculateBackoff on its own
MaxAttemptIndex == 1026

-----------------------------------------------------------------------------
(* JavaScript numbers *)

Num(v) == [k |-> "num", v |-> v]

NaN == [k |-> "nan", v |-> 0]

Infinity == [k |-> "inf", v |-> 0]

\* every finite value >= Huge is represented by Huge: the model only ever
\* compares such a value with the 30000 ms cap
Huge == 2^30

\* a < b and a <= b of JavaScript for an integer a: false when b is NaN
JsLt(a, b) == b.k = "inf" \/ (b.k = "num" /\ a < b.v)

JsLe(a, b) == b.k = "inf" \/ (b.k = "num" /\ a <= b.v)

\* a double overflows to Infinity from 2^1024 on
DoubleMaxExp == 1024

\* Math.pow(2, n) for an integer n >= 0
MathPow2(n) ==
    IF n >= DoubleMaxExp THEN Infinity
    ELSE IF n >= 30 THEN Num(Huge)
    ELSE Num(2^n)

\* d * p for an integer d >= 0: 0 * Infinity is NaN
JsTimes(d, p) ==
    CASE p.k = "nan" -> NaN
      [] p.k = "inf" -> IF d = 0 THEN NaN ELSE Infinity
      [] OTHER -> IF d = 0 THEN Num(0)
                  ELSE IF p.v >= Huge \div d THEN Num(Huge)
                  ELSE Num(d * p.v)

\* a + j for an integer j >= 0
JsPlus(a, j) ==
    CASE a.k = "nan" -> NaN
      [] a.k = "inf" -> Infinity
      [] OTHER -> IF a.v >= Huge THEN Num(Huge) ELSE Num(a.v + j)

\* Math.min(a, m) for an integer m: NaN if a is NaN
MathMin(a, m) ==
    CASE a.k = "nan" -> NaN
      [] a.k = "inf" -> Num(m)
      [] OTHER -> IF a.v < m THEN a ELSE Num(m)

-----------------------------------------------------------------------------
(* client.ts: helpers *)

\* the cap of the backoff delay, in ms
MaxBackoff == 30000

\* Math.random() * baseDelay, in whole ms, for the value k.num / k.den of
\* Math.random()
Jitter(k, baseDelay) == (k.num * baseDelay) \div k.den

\* calculateBackoff(attempt, baseDelay), k the value of Math.random()
calculateBackoff(attempt, baseDelay, k) ==
    LET exponentialDelay == JsTimes(baseDelay, MathPow2(attempt))
        jitter == Jitter(k, baseDelay)
    IN  MathMin(JsPlus(exponentialDelay, jitter), MaxBackoff)

\* mutant of isRetryableError: every server error is retried
isRetryableErrorAny5xx(status) == status = 429 \/ status >= 500

isRetryableError(status) ==
    status = 429 \/ status = 502 \/ status = 503 \/ status = 504

\* Response.ok
ResponseOk(status) == status >= 200 /\ status <= 299

-----------------------------------------------------------------------------
(* The inputs of the model *)

Reqs == {1, 2}

Families == {"api", "agile"}

\* parseInt(process.env.JIRA_RETRY_COUNT || '3', 10): an integer or NaN
RetryCounts == {NaN, Num(-1)} \cup {Num(i) : i \in 0..MaxRetry}

\* <<timeout, retryDelay>>: the defaults, and a configuration without delay
Timings == {<<30000, 1000>>, <<5000, 0>>}

\* base URLs, as the scheme, two slashes and the host
HttpsBase == <<"https:", "/", "/", "jira">>

HttpBase == <<"http:", "/", "/", "jira">>

\* what getConfig() hands to a request, TLS verification on
Configs ==
    { [timeout |-> t[1], retryCount |-> rc, retryDelay |-> t[2],
       sslVerify |-> TRUE, baseUrl |-> HttpsBase,
       username |-> <<"n">>, password |-> <<"p">>] :
        rc \in RetryCounts, t \in Timings }

\* configurations with TLS verification on or off, for either scheme
AgentConfigs ==
    [timeout : {30000}, retryCount : {Num(0)}, retryDelay : {1000},
     sslVerify : BOOLEAN, baseUrl : {HttpsBase, HttpBase},
     username : {<<"n">>}, password : {<<"p">>}]

\* bodies of error responses: a JSON error document (valid or undecodable)
\* or plain text
JsonBody(valid, errorMessages, errors) ==
    [valid |-> valid, errorMessages |-> errorMessages, errors |-> errors,
     text |-> ""]

TextBody(text) ==
    [valid |-> FALSE, errorMessages |-> <<>>, errors |-> <<>>, text |-> text]

ErrorBodies ==
    { [ctype |-> "application/json",
       body |-> JsonBody(TRUE, <<"m1">>, << <<"f", "v">> >>)],
      [ctype |-> "application/json", body |-> JsonBody(TRUE, <<>>, <<>>)],
      [ctype |-> "application/json", body |-> JsonBody(FALSE, <<>>, <<>>)],
      [ctype |-> "text/html", body |-> TextBody("oops")],
      [ctype |-> "text/html", body |-> TextBody("")] }

ErrorStatuses == {401, 403, 404, 429, 500, 502, 503, 504}

ErrorResponses ==
    { [status |-> s, contentLength |-> "n", ctype |-> e.ctype, body |-> e.body] :
        s \in ErrorStatuses, e \in ErrorBodies }

\* bodies of 2xx responses: text is the JSON document, valid whether it decodes
OkBody(valid, text) ==
    [valid |-> valid, errorMessages |-> <<>>, errors |-> <<>>, text |-> text]

OkResponses ==
    { [status |-> 200, contentLength |-> "n", ctype |-> "application/json",
       body |-> b] : b \in {OkBody(TRUE, "b1"), OkBody(TRUE, "b2"),
                            OkBody(FALSE, "<html>")} }
    \cup
    { [status |-> 200, contentLength |-> "0", ctype |-> "application/json",
       body |-> OkBody(FALSE, "")],
      [status |-> 204, contentLength |-> "absent", ctype |-> "none",
       body |-> OkBody(FALSE, "")],
      [status |-> 201, contentLength |-> "n", ctype |-> "application/json",
       body |-> OkBody(TRUE, "b1")] }

Responses == OkResponses \cup ErrorResponses

\* errors fetch() rejects with, other than the abort of the attempt's timer:
\* the TypeError of a network failure ("fetch failed"), or an error of
\* another class
ThrownNames == {"TypeError", "Error"}

-----------------------------------------------------------------------------
(* Values *)

Null == [name |-> "null"]

NoResponse ==
    [status |-> 0, contentLength |-> "absent", ctype |-> "none",
     body |-> OkBody(FALSE, "")]

NoResult == [t |-> "none"]

Undefined == [t |-> "undefined"]

Json(b) == [t |-> "json", body |-> b]

JiraApiException(kind, text, status) ==
    [name |-> "JiraApiException", kind |-> kind, text |-> text, status |-> status]

PlainError(name, kind) == [name |-> name, kind |-> kind]

\* the outcome that ends an attempt
Responded(status) == [t |-> "response", status |-> status]

Threw(name) == [t |-> name, status |-> 0]

IdleReq ==
    [pc |-> "idle", family |-> "none",
     timeout |-> 0, retryCount |-> Num(0), retryDelay |-> 0,
     attempt |-> 0, lastError |-> Null, caught |-> Null,
     response |-> NoResponse, result |-> NoResult, error |-> Null,
     timers |-> <<>>, attempts |-> <<>>, outcomes |-> <<>>, sleeps |-> <<>>,
     inflight |-> 0, pendingSleeps |-> 0, decodes |-> 0,
     sslVerify |-> TRUE, url |-> <<>>, agent |-> "none",
     authorization |-> <<>>]

-----------------------------------------------------------------------------
(* client.ts: error texts and errors *)

ErrText(kind, n, parts) == [kind |-> kind, n |-> n, parts |-> parts]

\* `HTTP ${response.status}`
HttpText(status) == ErrText("http", status, <<>>)

NoText == ErrText("fixed", 0, <<>>)

\* the messages of a JSON error document: errorMessages, then `${k}: ${v}` for
\* every entry of errors; [k, v] stands for the string, k = "" for a message
ErrorMessagesOf(body) ==
    [i \in 1..Len(body.errorMessages) |-> [k |-> "", v |-> body.errorMessages[i]]]
    \o [i \in 1..Len(body.errors) |->
            [k |-> body.errors[i][1], v |-> body.errors[i][2]]]

\* parseErrorResponse(response); a body that does not decode throws inside
\* the try and the catch answers `HTTP ${status}`
parseErrorResponse(response) ==
    IF response.ctype = "application/json"
    THEN IF ~response.body.valid
         THEN HttpText(response.status)
         ELSE LET messages == ErrorMessagesOf(response.body)
              IN  IF Len(messages) > 0
                  THEN ErrText("messages", 0, messages)
                  ELSE HttpText(response.status)
    ELSE IF response.body.text # ""
         THEN ErrText("text", 0, <<[k |-> "", v |-> response.body.text]>>)
         ELSE HttpText(response.status)

\* new JiraApiException(`Request timeout after ${timeout}ms`, 0)
TimeoutError(timeout) ==
    JiraApiException("Timeout", ErrText("timeout", timeout, <<>>), 0)

\* new Error('Request failed after retries')
FallbackError == PlainError("Error", "Request failed after retries")

\* mutant of ApiError: a 403 is reported as an authentication failure
ApiErrorAuthFor403(status, errorText) ==
    IF status = 401 \/ status = 403
    THEN JiraApiException("AuthenticationFailed", NoText, status)
    ELSE IF status = 404 THEN JiraApiException("NotFound", errorText, status)
    ELSE IF status = 429 THEN JiraApiException("RateLimited", NoText, status)
    ELSE JiraApiException("ApiError", errorText, status)

\* jiraFetch: the exception thrown for a non-2xx response that is not retried
ApiError(status, errorText) ==
    IF status = 401 THEN JiraApiException("AuthenticationFailed", NoText, status)
    ELSE IF status = 403 THEN JiraApiException("Forbidden", NoText, status)
    ELSE IF status = 404 THEN JiraApiException("NotFound", errorText, status)
    ELSE IF status = 429 THEN JiraApiException("RateLimited", NoText, status)
    ELSE JiraApiException("ApiError", errorText, status)

\* mutant of AgileApiError: the agile family classifies like jiraFetch
AgileApiErrorClassified(status, errorText) == ApiError(status, errorText)

\* jiraAgileFetch: the exception thrown for a non-2xx response that is not retried
AgileApiError(status, errorText) ==
    JiraApiException("AgileApiError", errorText, status)

-----------------------------------------------------------------------------
(* client.ts: the shared HTTPS agent; made counts the agents constructed *)

\* mutant of getHttpsAgent: a new agent is constructed on every call
getHttpsAgentAlwaysNew(agent, sslVerify) ==
    [made |-> agent.made + 1, rejectUnauthorized |-> sslVerify]

\* getHttpsAgent(), sslVerify that of getConfig()
getHttpsAgent(agent, sslVerify) ==
    IF agent.made = 0
    THEN [made |-> agent.made + 1, rejectUnauthorized |-> sslVerify]
    ELSE agent

\* url.startsWith('https://')
IsHttps(url) ==
    Len(url) >= 3 /\ SubSeq(url, 1, 3) = <<"https:", "/", "/">>

\* !sslVerify && url.startsWith('https://')
UsesAgent(sslVerify, url) == ~sslVerify /\ IsHttps(url)

-----
(* client.ts: the pieces of one logical request, as functions of its frame q *)

Throw(q, err) == [q EXCEPT !.pc = "thrown", !.error = err]

Return(q, v) == [q EXCEPT !.pc = "returned", !.result = v]

\* mutant of ArmTimer: the timeout is that of the configuration now cached
ArmTimerCurrentConfig(q) ==
    [q EXCEPT !.timers = Append(@, [ms |-> IF cachedConfig = Null
                                           THEN q.timeout
                                           ELSE cachedConfig.timeout.v,
                                    state |-> "armed", aborted |-> FALSE])]

\* setTimeout(() => controller.abort(), timeout) of the current iteration
ArmTimer(q) ==
    [q EXCEPT !.timers = Append(@, [ms |-> q.timeout, state |-> "armed",
                                    aborted |-> FALSE])]

\* mutant of clearTimeout: the timer stays armed
clearTimeoutForgets(q) == q

\* clearTimeout(timeoutId): disarms the timer of the current iteration
clearTimeout(q) ==
    LET i == Len(q.timers)
    IN  IF i > 0 /\ q.timers[i].state = "armed"
        THEN [q EXCEPT !.timers[i].state = "cleared"]
        ELSE q

\* fetch(url, {...fetchOptions, signal}): the exchange of this attempt starts
CallFetch(q) ==
    [q EXCEPT !.pc = "fetch", !.attempts = Append(@, q.attempt),
              !.inflight = @ + 1]

\* the fetch of the current attempt settles with outcome o
FetchSettled(q, o) ==
    [q EXCEPT !.inflight = @ - 1, !.outcomes = Append(@, o)]

\* await sleep(delay): the frame is suspended until the sleep timer fires
sleep(q, delay) ==
    [q EXCEPT !.pc = "sleep", !.sleeps = Append(@, delay),
              !.pendingSleeps = @ + 1]

\* mutant of LoopCondition: attempt < retryCount
LoopConditionLt(attempt, retryCount) == JsLt(attempt, retryCount)

\* for (...; attempt <= retryCount; ...)
LoopCondition(attempt, retryCount) == JsLe(attempt, retryCount)

\* mutant of NextAttempt: the retry does not advance the attempt index
NextAttemptStuck(attempt) == attempt

\* for (...; ...; attempt++)
NextAttempt(attempt) == attempt + 1

\* throw lastError || new Error('Request failed after retries')
AfterLoop(q) ==
    Throw(q, IF q.lastError # Null THEN q.lastError ELSE FallbackError)

-----------------------------------------------------------------------------
(* client.ts: jiraFetch *)

\* isRetryableError(response.status) && attempt < retryCount
jiraFetchRetryOnStatus(status, attempt, retryCount) ==
    isRetryableError(status) /\ JsLt(attempt, retryCount)

\* mutant of jiraFetchRetryOnTimeout: only the first timeout is retried
jiraFetchRetryOnTimeoutOnce(attempt, retryCount) ==
    attempt = 0 /\ JsLt(attempt, retryCount)

\* the AbortError branch: attempt < retryCount
jiraFetchRetryOnTimeout(attempt, retryCount) == JsLt(attempt, retryCount)

\* err instanceof TypeError && attempt < retryCount
jiraFetchRetryOnNetworkError(name, attempt, retryCount) ==
    name = "TypeError" /\ JsLt(attempt, retryCount)

\* mutant of jiraFetchLoop: one attempt counter for all the calls under way
jiraFetchLoopSharedCounter(q, a) ==
    LET others == {req[r].attempt : r \in DOMAIN req}
        shared == CHOOSE n \in others \cup {a} :
                        \A m \in others \cup {a} : n >= m
    IN  IF LoopCondition(shared, q.retryCount)
        THEN CallFetch(ArmTimer([q EXCEPT !.attempt = shared]))
        ELSE AfterLoop([q EXCEPT !.attempt = shared])

\* the loop test and the body of one iteration up to `await fetch(...)`;
\* past the loop, the final throw
jiraFetchLoop(q, a) ==
    IF LoopCondition(a, q.retryCount)
    THEN CallFetch(ArmTimer([q EXCEPT !.attempt = a]))
    ELSE AfterLoop([q EXCEPT !.attempt = a])

\* `Basic ${credentials}`, credentials the base64 text of username:password
getAuthHeader(username, password) ==
    <<"Basic", " ", [base64 |-> username \o <<":">> \o password]>>

\* the function body before the loop: the configuration is read once
jiraFetchStart(q, c) ==
    LET url == c.baseUrl \o <<"/", "rest", "/", "api", "/", "2">>
    IN  jiraFetchLoop([q EXCEPT !.family = "api", !.timeout = c.timeout,
                                !.retryCount = c.retryCount,
                                !.retryDelay = c.retryDelay,
                                !.sslVerify = c.sslVerify, !.url = url,
                                !.authorization =
                                    getAuthHeader(c.username, c.password),
                                !.agent = IF UsesAgent(c.sslVerify, url)
                                          THEN "attached" ELSE "none",
                                !.lastError = Null], 0)

\* mutant of jiraFetchCatch: the last timeout is swallowed and the empty
\* result returned
jiraFetchCatchSwallowsTimeout(q0, err, k) ==
    LET q == clearTimeout(q0)
        delay == calculateBackoff(q.attempt, q.retryDelay, k)
    IN  IF err.name = "AbortError"
        THEN LET q1 == [q EXCEPT !.lastError = TimeoutError(q.timeout)]
             IN  IF jiraFetchRetryOnTimeout(q.attempt, q.retryCount)
                 THEN sleep(q1, delay)
                 ELSE Return(q1, Undefined)
        ELSE IF jiraFetchRetryOnNetworkError(err.name, q.attempt, q.retryCount)
             THEN sleep([q EXCEPT !.caught = err], delay)
             ELSE Throw(q, err)

\* mutant of jiraFetchCatch: sleep(delay) is called without await, the loop
\* goes on while the sleep timer runs
jiraFetchCatchNoAwait(q0, err, k) ==
    LET q == clearTimeout(q0)
        delay == calculateBackoff(q.attempt, q.retryDelay, k)
        started(f) == [f EXCEPT !.sleeps = Append(@, delay),
                                !.pendingSleeps = @ + 1]
    IN  IF err.name = "AbortError"
        THEN LET q1 == [q EXCEPT !.lastError = TimeoutError(q.timeout)]
             IN  IF jiraFetchRetryOnTimeout(q.attempt, q.retryCount)
                 THEN jiraFetchLoop(started(q1), NextAttempt(q.attempt))
                 ELSE Throw(q1, q1.lastError)
        ELSE IF jiraFetchRetryOnNetworkError(err.name, q.attempt, q.retryCount)
             THEN jiraFetchLoop(started([q EXCEPT !.lastError = err]),
                                NextAttempt(q.attempt))
             ELSE Throw(q, err)

\* catch (err) { ... }, k the value of Math.random()
jiraFetchCatch(q0, err, k) ==
    LET q == clearTimeout(q0)
        delay == calculateBackoff(q.attempt, q.retryDelay, k)
    IN  IF err.name = "AbortError"
        THEN LET q1 == [q EXCEPT !.lastError = TimeoutError(q.timeout)]
             IN  IF jiraFetchRetryOnTimeout(q.attempt, q.retryCount)
                 THEN sleep(q1, delay)
                 ELSE Throw(q1, q1.lastError)
        ELSE IF jiraFetchRetryOnNetworkError(err.name, q.attempt, q.retryCount)
             THEN sleep([q EXCEPT !.caught = err], delay)
             ELSE Throw(q, err)

\* fetch resolved: clearTimeout, then the error text is awaited, or the empty
\* result returned, or the promise of response.json() returned
jiraFetchOnResponse(q0, response) ==
    LET q == [clearTimeout(q0) EXCEPT !.response = response]
    IN  IF ~ResponseOk(response.status)
        THEN [q EXCEPT !.pc = "parseError"]
        ELSE IF response.status = 204 \/ response.contentLength = "0"
             THEN Return(q, Undefined)
             ELSE [q EXCEPT !.pc = "decode", !.decodes = @ + 1]

\* mutant of jiraFetchOnErrorText: a retryable status is retried at once,
\* without the backoff wait
jiraFetchOnErrorTextNoBackoff(q, k) ==
    LET errorText == parseErrorResponse(q.response)
        status == q.response.status
    IN  IF jiraFetchRetryOnStatus(status, q.attempt, q.retryCount)
        THEN jiraFetchLoop(q, NextAttempt(q.attempt))
        ELSE jiraFetchCatch(q, ApiError(status, errorText), k)

\* parseErrorResponse resolved: retry, or throw the classified exception,
\* which the catch block of the same iteration receives
jiraFetchOnErrorText(q, k) ==
    LET errorText == parseErrorResponse(q.response)
        status == q.response.status
    IN  IF jiraFetchRetryOnStatus(status, q.attempt, q.retryCount)
        THEN sleep(q, calculateBackoff(q.attempt, q.retryDelay, k))
        ELSE jiraFetchCatch(q, ApiError(status, errorText), k)

\* mutant of jiraFetchOnDecoded: a body that does not decode is handled like a
\* network error, and retried while the budget lasts
jiraFetchOnDecodedRetries(q) ==
    IF q.response.body.valid
    THEN Return(q, Json(q.response.body.text))
    ELSE jiraFetchCatch(q, PlainError("TypeError", "Unexpected token"),
                        [num |-> 0, den |-> 2])

\* the promise of response.json(), returned without await, settles
jiraFetchOnDecoded(q) ==
    IF q.response.body.valid
    THEN Return(q, Json(q.response.body.text))
    ELSE Throw(q, PlainError("SyntaxError", "Unexpected token"))

\* mutant of jiraFetchAfterSleep: the loop does not go on after the wait
jiraFetchAfterSleepLost(q) == q

\* sleep resolved: (network-error branch: lastError = err;) continue
jiraFetchAfterSleep(q) ==
    LET q1 == IF q.caught # Null
              THEN [q EXCEPT !.lastError = q.caught, !.caught = Null]
              ELSE q
    IN  jiraFetchLoop(q1, NextAttempt(q.attempt))

-----------------------------------------------------------------------------
(* client.ts: jiraAgileFetch *)

\* mutant of jiraAgileFetchRetryOnStatus: attempt <= retryCount
jiraAgileFetchRetryOnStatusLe(status, attempt, retryCount) ==
    isRetryableError(status) /\ JsLe(attempt, retryCount)

\* isRetryableError(response.status) && attempt < retryCount
jiraAgileFetchRetryOnStatus(status, attempt, retryCount) ==
    isRetryableError(status) /\ JsLt(attempt, retryCount)

\* mutant of jiraAgileFetchRetryOnTimeout: a timeout is never retried
jiraAgileFetchRetryOnTimeoutNever(attempt, retryCount) == FALSE

\* the AbortError branch: attempt < retryCount
jiraAgileFetchRetryOnTimeout(attempt, retryCount) == JsLt(attempt, retryCount)

\* mutant of jiraAgileFetchRetryOnNetworkError: the error is recognised by a
\* name fetch does not use
jiraAgileFetchRetryOnNetworkErrorByName(name, attempt, retryCount) ==
    name = "NetworkError" /\ JsLt(attempt, retryCount)

\* err instanceof TypeError && attempt < retryCount
jiraAgileFetchRetryOnNetworkError(name, attempt, retryCount) ==
    name = "TypeError" /\ JsLt(attempt, retryCount)

\* the loop test and the body of one iteration up to `await fetch(...)`;
\* past the loop, the final throw
jiraAgileFetchLoop(q, a) ==
    IF LoopCondition(a, q.retryCount)
    THEN CallFetch(ArmTimer([q EXCEPT !.attempt = a]))
    ELSE AfterLoop([q EXCEPT !.attempt = a])

\* the function body before the loop: the configuration is read once
jiraAgileFetchStart(q, c) ==
    LET url == c.baseUrl \o <<"/", "rest", "/", "agile", "/", "1.0">>
    IN  jiraAgileFetchLoop([q EXCEPT !.family = "agile", !.timeout = c.timeout,
                                !.retryCount = c.retryCount,
                                !.retryDelay = c.retryDelay,
                                !.sslVerify = c.sslVerify, !.url = url,
                                !.authorization =
                                    getAuthHeader(c.username, c.password),
                                !.agent = IF UsesAgent(c.sslVerify, url)
                                          THEN "attached" ELSE "none",
                                !.lastError = Null], 0)

\* catch (err) { ... }, k the value of Math.random()
jiraAgileFetchCatch(q0, err, k) ==
    LET q == clearTimeout(q0)
        delay == calculateBackoff(q.attempt, q.retryDelay, k)
    IN  IF err.name = "AbortError"
        THEN LET q1 == [q EXCEPT !.lastError = TimeoutError(q.timeout)]
             IN  IF jiraAgileFetchRetryOnTimeout(q.attempt, q.retryCount)
                 THEN sleep(q1, delay)
                 ELSE Throw(q1, q1.lastError)
        ELSE IF jiraAgileFetchRetryOnNetworkError(err.name, q.attempt, q.retryCount)
             THEN sleep([q EXCEPT !.caught = err], delay)
             ELSE Throw(q, err)

\* mutant of jiraAgileFetchOnResponse: only status 204 counts as empty, a zero
\* content-length is decoded
jiraAgileFetchOnResponseOnly204(q0, response) ==
    LET q == [clearTimeout(q0) EXCEPT !.response = response]
    IN  IF ~ResponseOk(response.status)
        THEN [q EXCEPT !.pc = "parseError"]
        ELSE IF response.status = 204
             THEN Return(q, Undefined)
             ELSE [q EXCEPT !.pc = "decode", !.decodes = @ + 1]

\* fetch resolved: clearTimeout, then the error text is awaited, or the empty
\* result returned, or the promise of response.json() returned; decodes
\* counts the calls of response.json() on the return path
jiraAgileFetchOnResponse(q0, response) ==
    LET q == [clearTimeout(q0) EXCEPT !.response = response]
    IN  IF ~ResponseOk(response.status)
        THEN [q EXCEPT !.pc = "parseError"]
        ELSE IF response.status = 204 \/ response.contentLength = "0"
             THEN Return(q, Undefined)
             ELSE [q EXCEPT !.pc = "decode", !.decodes = @ + 1]

\* parseErrorResponse resolved: retry, or throw the classified exception,
\* which the catch block of the same iteration receives
jiraAgileFetchOnErrorText(q, k) ==
    LET errorText == parseErrorResponse(q.response)
        status == q.response.status
    IN  IF jiraAgileFetchRetryOnStatus(status, q.attempt, q.retryCount)
        THEN sleep(q, calculateBackoff(q.attempt, q.retryDelay, k))
        ELSE jiraAgileFetchCatch(q, AgileApiError(status, errorText), k)

\* the promise of response.json(), returned without await, settles
jiraAgileFetchOnDecoded(q) ==
    IF q.response.body.valid
    THEN Return(q, Json(q.response.body.text))
    ELSE Throw(q, PlainError("SyntaxError", "Unexpected token"))

\* sleep resolved: (network-error branch: lastError = err;) continue
jiraAgileFetchAfterSleep(q) ==
    LET q1 == IF q.caught # Null
              THEN [q EXCEPT !.lastError = q.caught, !.caught = Null]
              ELSE q
    IN  jiraAgileFetchLoop(q1, NextAttempt(q.attempt))

-----------------------------------------------------------------------------
(* config.ts: the configuration read from the environment.  A string is a   *)
(* sequence of characters; env is process.env restricted to the variables   *)
(* of the settings modelled (base URL, credentials, project filter, retry   *)
(* count, cache TTL), cachedConfig the module's cached configuration        *)

\* an environment variable: not set, or set to the string s
Absent == [def |-> FALSE, s |-> <<>>]

Str(s) == [def |-> TRUE, s |-> s]

\* the value is undefined or the empty string
Falsy(x) == ~x.def \/ x.s = <<>>

\* x || dflt
OrDefault(x, dflt) == IF Falsy(x) THEN dflt ELSE x.s

\* a space or a line break
Whitespace == {" ", "\n"}

DigitChars == <<"0", "1", "2", "3", "4", "5", "6", "7", "8", "9">>

IsDigit(c) == \E i \in 1..10 : DigitChars[i] = c

DigitVal(c) == (CHOOSE i \in 1..10 : DigitChars[i] = c) - 1

RECURSIVE TrimStart(_)
TrimStart(s) ==
    IF s # <<>> /\ Head(s) \in Whitespace THEN TrimStart(Tail(s)) ELSE s

RECURSIVE TrimEnd(_)
TrimEnd(s) ==
    IF s # <<>> /\ s[Len(s)] \in Whitespace
    THEN TrimEnd(SubSeq(s, 1, Len(s) - 1))
    ELSE s

\* String.prototype.trim
trim(s) == TrimEnd(TrimStart(s))

UpperChar(c) ==
    CASE c = "a" -> "A"
      [] c = "b" -> "B"
      [] OTHER -> c

\* String.prototype.toUpperCase
toUpperCase(s) == [i \in 1..Len(s) |-> UpperChar(s[i])]

\* the value of the longest prefix of decimal digits of s, after acc
RECURSIVE DigitsValue(_, _)
DigitsValue(s, acc) ==
    IF s # <<>> /\ IsDigit(Head(s))
    THEN DigitsValue(Tail(s), 10 * acc + DigitVal(Head(s)))
    ELSE acc

\* parseInt(s, 10): leading whitespace, a sign, then the digits up to the
\* first other character; NaN without a digit
parseInt(s) ==
    LET t == TrimStart(s)
        signed == t # <<>> /\ Head(t) \in {"+", "-"}
        u == IF signed THEN Tail(t) ELSE t
    IN  IF u = <<>> \/ ~IsDigit(Head(u))
        THEN NaN
        ELSE IF signed /\ Head(t) = "-"
             THEN Num(0 - DigitsValue(u, 0))
             ELSE Num(DigitsValue(u, 0))

\* s.split(','): the segments between the commas, in order
RECURSIVE split(_, _)
split(s, cur) ==
    IF s = <<>> THEN <<cur>>
    ELSE IF Head(s) = "," THEN <<cur>> \o split(Tail(s), <<>>)
    ELSE split(Tail(s), Append(cur, Head(s)))

\* list.filter(Boolean) on strings
RECURSIVE filterBoolean(_)
filterBoolean(list) ==
    IF list = <<>> THEN <<>>
    ELSE IF Head(list) = <<>> THEN filterBoolean(Tail(list))
    ELSE <<Head(list)>> \o filterBoolean(Tail(list))

NoFilter == [def |-> FALSE, list |-> <<>>]

\* projectsFilterStr ? split(',').map(trim, toUpperCase).filter(Boolean)
\*                   : undefined
parseProjectsFilter(x) ==
    IF Falsy(x) THEN NoFilter
    ELSE LET parts == split(x.s, <<>>)
         IN  [def |-> TRUE,
              list |-> filterBoolean(
                          [i \in 1..Len(parts) |-> toUpperCase(trim(parts[i]))])]

\* baseUrl.replace(/\/$/, '')
StripTrailingSlash(s) ==
    IF s # <<>> /\ s[Len(s)] = "/" THEN SubSeq(s, 1, Len(s) - 1) ELSE s

\* new Error(`Missing ${variable} environment variable`)
MissingError(variable) ==
    [name |-> "Error", kind |-> "missing", variable |-> variable]

LowerChar(c) ==
    CASE c = "F" -> "f"
      [] c = "A" -> "a"
      [] OTHER -> c

\* String.prototype.toLowerCase
toLowerCase(s) == [i \in 1..Len(s) |-> LowerChar(s[i])]

\* JIRA_SSL_VERIFY, lower-cased, is neither 'false' nor '0'
parseSslVerify(v) ==
    LET sslVerifyEnv == IF v.def THEN toLowerCase(v.s) ELSE <<>>
    IN  sslVerifyEnv # <<"f", "a", "l", "s", "e">> /\ sslVerifyEnv # <<"0">>

\* the object getConfig builds from the environment e
BuildConfig(e) ==
    [baseUrl |-> StripTrailingSlash(e.JIRA_BASE_URL.s),
     username |-> e.JIRA_USERNAME.s,
     password |-> e.JIRA_PASSWORD.s,
     projectsFilter |-> parseProjectsFilter(e.JIRA_PROJECTS_FILTER),
     timeout |-> parseInt(OrDefault(e.JIRA_TIMEOUT,
                                    <<"3", "0", "0", "0", "0">>)),
     retryCount |-> parseInt(OrDefault(e.JIRA_RETRY_COUNT, <<"3">>)),
     retryDelay |-> parseInt(OrDefault(e.JIRA_RETRY_DELAY,
                                       <<"1", "0", "0", "0">>)),
     sslVerify |-> parseSslVerify(e.JIRA_SSL_VERIFY),
     cacheTtl |-> parseInt(OrDefault(e.JIRA_CACHE_TTL, <<"3", "0", "0">>))]

Failed(cached, error) ==
    [ok |-> FALSE, config |-> Null, error |-> error, cachedConfig |-> cached]

Loaded(config) ==
    [ok |-> TRUE, config |-> config, error |-> Null, cachedConfig |-> config]

\* mutant of getConfig: the cached configuration is not consulted
getConfigUncached(cached, e) ==
    IF Falsy(e.JIRA_BASE_URL) THEN Failed(cached, MissingError("JIRA_BASE_URL"))
    ELSE IF Falsy(e.JIRA_USERNAME)
    THEN Failed(cached, MissingError("JIRA_USERNAME"))
    ELSE IF Falsy(e.JIRA_PASSWORD)
    THEN Failed(cached, MissingError("JIRA_PASSWORD"))
    ELSE Loaded(BuildConfig(e))

\* mutant of getConfig: an empty password passes the check
getConfigEmptyPassword(cached, e) ==
    IF cached # Null THEN Loaded(cached)
    ELSE IF Falsy(e.JIRA_BASE_URL)
    THEN Failed(cached, MissingError("JIRA_BASE_URL"))
    ELSE IF Falsy(e.JIRA_USERNAME)
    THEN Failed(cached, MissingError("JIRA_USERNAME"))
    ELSE IF ~e.JIRA_PASSWORD.def
    THEN Failed(cached, MissingError("JIRA_PASSWORD"))
    ELSE Loaded(BuildConfig(e))

\* mutant of getConfig: the configuration is built and cached before the
\* required values are checked
getConfigCachesBeforeCheck(cached, e) ==
    IF cached # Null THEN Loaded(cached)
    ELSE IF Falsy(e.JIRA_BASE_URL)
    THEN Failed(BuildConfig(e), MissingError("JIRA_BASE_URL"))
    ELSE IF Falsy(e.JIRA_USERNAME)
    THEN Failed(BuildConfig(e), MissingError("JIRA_USERNAME"))
    ELSE IF Falsy(e.JIRA_PASSWORD)
    THEN Failed(BuildConfig(e), MissingError("JIRA_PASSWORD"))
    ELSE Loaded(BuildConfig(e))

\* getConfig() with cachedConfig = cached and process.env = e: what it
\* returns or throws, and the cachedConfig it leaves
getConfig(cached, e) ==
    IF cached # Null THEN Loaded(cached)
    ELSE IF Falsy(e.JIRA_BASE_URL)
    THEN Failed(cached, MissingError("JIRA_BASE_URL"))
    ELSE IF Falsy(e.JIRA_USERNAME)
    THEN Failed(cached, MissingError("JIRA_USERNAME"))
    ELSE IF Falsy(e.JIRA_PASSWORD)
    THEN Failed(cached, MissingError("JIRA_PASSWORD"))
    ELSE Loaded(BuildConfig(e))

\* mutant of isProjectAllowed: the key is compared as given
isProjectAllowedAsGiven(config, projectKey) ==
    IF ~config.projectsFilter.def \/ Len(config.projectsFilter.list) = 0
    THEN TRUE
    ELSE \E i \in 1..Len(config.projectsFilter.list) :
            config.projectsFilter.list[i] = projectKey

\* isProjectAllowed(projectKey), config = getConfig()
isProjectAllowed(config, projectKey) ==
    IF ~config.projectsFilter.def \/ Len(config.projectsFilter.list) = 0
    THEN TRUE
    ELSE \E i \in 1..Len(config.projectsFilter.list) :
            config.projectsFilter.list[i] = toUpperCase(projectKey)

-----------------------------------------------------------------------------
(* cache.ts: the in-memory cache with time-to-live and withCache.  store is *)
(* the Map of the Cache instance, now the value of Date.now(), wc the       *)
(* frames of the withCache calls under way; obs records what was observed   *)
(* of the cache: the operation just performed, the get just performed, the  *)
(* last write of every key and the order in which producers resolved        *)

Keys == {"k1", "k2"}

Callers == {1, 2}

\* the instants, in milliseconds, at which the cache is used: an entry
\* stored at 0 for one second is read at its expiry instant and 200 ms later
Instants == {0, 1000, 1200, 2200}

\* the number 0, the falsy value among the cached values
JsZero == [t |-> "number", body |-> "0"]

\* values a producer resolves with, or a caller stores
CacheValues == {Undefined, JsZero, Json("b1")}

\* the optional argument ttlSeconds, when it is not passed
NoTtl == [k |-> "undefined", v |-> 0]

TtlArgs == {NoTtl, Num(0), Num(1)}

\* Map.get of a key the store does not hold
NoEntry == [has |-> FALSE, value |-> Undefined, expiresAt |-> Num(0)]

CacheEntry(value, expiresAt) ==
    [has |-> TRUE, value |-> value, expiresAt |-> expiresAt]

\* a > b of JavaScript for an integer a: false when b is NaN
JsGt(a, b) == b.k = "num" /\ a > b.v

\* mutant of cacheGet: an entry is expired from its expiry instant on
cacheGetExpiredAtExpiry(st, key, t) ==
    LET entry == st[key]
    IN  IF ~entry.has
        THEN [value |-> Undefined, store |-> st]
        ELSE IF ~JsLt(t, entry.expiresAt)
             THEN [value |-> Undefined, store |-> [st EXCEPT ![key] = NoEntry]]
             ELSE [value |-> entry.value, store |-> st]

\* mutant of cacheGet: an expired entry is reported absent and left in the
\* store
cacheGetKeepsExpired(st, key, t) ==
    LET entry == st[key]
    IN  IF ~entry.has \/ JsGt(t, entry.expiresAt)
        THEN [value |-> Undefined, store |-> st]
        ELSE [value |-> entry.value, store |-> st]

\* mutant of cacheGet: a hit pushes the expiry one second past the read
cacheGetTouches(st, key, t) ==
    LET entry == st[key]
    IN  IF ~entry.has
        THEN [value |-> Undefined, store |-> st]
        ELSE IF JsGt(t, entry.expiresAt)
             THEN [value |-> Undefined, store |-> [st EXCEPT ![key] = NoEntry]]
             ELSE [value |-> entry.value,
                   store |-> [st EXCEPT ![key].expiresAt = Num(t + 1000)]]

\* cache.get(key) at instant t: the value returned and the store it leaves
cacheGet(st, key, t) ==
    LET entry == st[key]
    IN  IF ~entry.has
        THEN [value |-> Undefined, store |-> st]
        ELSE IF JsGt(t, entry.expiresAt)
             THEN [value |-> Undefined, store |-> [st EXCEPT ![key] = NoEntry]]
             ELSE [value |-> entry.value, store |-> st]

\* cache.stats(): the number of entries and their keys
cacheStats(st) ==
    [size |-> Cardinality({k \in Keys : st[k].has}),
     keys |-> {k \in Keys : st[k].has}]

\* mutant of cacheSet: the expiry is not counted from the instant of the store
cacheSetFromZero(st, key, value, ttlSeconds, config, t) ==
    LET ttl == IF ttlSeconds = NoTtl THEN config.cacheTtl ELSE ttlSeconds
        expiresAt == JsTimes(1000, ttl)
    IN  [st EXCEPT ![key] = CacheEntry(value, expiresAt)]

\* cache.set(key, value, ttlSeconds) at instant t, config = getConfig()
cacheSet(st, key, value, ttlSeconds, config, t) ==
    LET ttl == IF ttlSeconds = NoTtl THEN config.cacheTtl ELSE ttlSeconds
        expiresAt == JsPlus(JsTimes(1000, ttl), t)
    IN  [st EXCEPT ![key] = CacheEntry(value, expiresAt)]

\* mutant of cacheDelete: the whole store is dropped
cacheDeleteAll(st, key) == [k \in Keys |-> NoEntry]

\* cache.delete(key)
cacheDelete(st, key) == [st EXCEPT ![key] = NoEntry]

\* cache.clear()
cacheClear(st) == [k \in Keys |-> NoEntry]

\* the frame of a withCache call: cached and result are its locals, calls
\* counts the invocations of fn; hit and expired record whether the store
\* held an unexpired or an expired entry for the key when the call was made,
\* produced the value fn resolved with, raced whether another call was
\* awaiting its producer for the same key while this one was, partner what
\* such a call returned meanwhile
IdleCaller ==
    [pc |-> "idle", key |-> "none", ttl |-> NoTtl, cached |-> Undefined,
     result |-> NoResult, produced |-> NoResult, calls |-> 0,
     hit |-> FALSE, expired |-> FALSE, raced |-> FALSE, partner |-> NoResult]

\* an entry a reader at instant t still sees
Live(entry, t) == entry.has /\ ~JsGt(t, entry.expiresAt)

\* withCache(key, fn, ttlSeconds) up to its return on a hit, or to await fn()
withCacheCall(st, key, ttlSeconds, t) ==
    LET g == cacheGet(st, key, t)
        f == [IdleCaller EXCEPT !.key = key, !.ttl = ttlSeconds,
                                !.cached = g.value,
                                !.hit = Live(st[key], t),
                                !.expired = st[key].has /\ ~Live(st[key], t)]
    IN  [store |-> g.store,
         frame |-> IF g.value # Undefined
                   THEN [f EXCEPT !.pc = "returned", !.result = g.value]
                   ELSE [f EXCEPT !.pc = "awaiting", !.calls = @ + 1]]

\* mutant of withCacheOnResolved: the entry another caller wrote while fn was
\* running is kept and returned
withCacheOnResolvedFirstWins(f, st, v, config, t) ==
    IF Live(st[f.key], t)
    THEN [store |-> st,
          frame |-> [f EXCEPT !.pc = "returned", !.produced = v,
                              !.result = st[f.key].value]]
    ELSE [store |-> cacheSet(st, f.key, v, f.ttl, config, t),
          frame |-> [f EXCEPT !.pc = "returned", !.produced = v, !.result = v]]

\* fn() resolved with v at instant t: cache.set, return result
withCacheOnResolved(f, st, v, config, t) ==
    [store |-> cacheSet(st, f.key, v, f.ttl, config, t),
     frame |-> [f EXCEPT !.pc = "returned", !.produced = v, !.result = v]]

\* mutant of withCacheOnRejected: the rejection is swallowed and the call
\* returns undefined
withCacheOnRejectedSwallowed(f) ==
    [f EXCEPT !.pc = "returned", !.result = Undefined]

\* fn() rejected: the rejection leaves withCache at the await
withCacheOnRejected(f) == [f EXCEPT !.pc = "thrown"]

-----------------------------------------------------------------------------
(* transformer: toSimplifiedIssue, the part that transforms the issue links *)

\* most links of a raw issue
MaxLinks == 2

\* link.inwardIssue / link.outwardIssue when the property is not there
NoIssue ==
    [def |-> FALSE, key |-> "", summary |-> "", status |-> "", issuetype |-> ""]

NestedIssues ==
    { [def |-> TRUE, key |-> "A-1", summary |-> "s1", status |-> "Open",
       issuetype |-> "Bug"],
      [def |-> TRUE, key |-> "A-2", summary |-> "s2", status |-> "Done",
       issuetype |-> "Task"] }

LinkTypes ==
    { [inward |-> "is blocked by", outward |-> "blocks"],
      [inward |-> "relates to", outward |-> "relates to"] }

RawLinks ==
    [id : {"10"}, type : LinkTypes,
     inwardIssue : NestedIssues \cup {NoIssue},
     outwardIssue : NestedIssues \cup {NoIssue}]

\* fields.issuelinks: not there, or a list of links
NoList == [def |-> FALSE, list |-> <<>>]

List(l) == [def |-> TRUE, list |-> l]

RawIssueLinks ==
    {NoList} \cup
    UNION { {List(l) : l \in [1..n -> RawLinks]} : n \in 0..MaxLinks }

\* fields.assignee: not there, null, or a user
NoUser == [is |-> "undefined", displayName |-> <<>>]

NullUser == [is |-> "null", displayName |-> <<>>]

User(displayName) == [is |-> "user", displayName |-> displayName]

RawAssignees == {NoUser, NullUser, User(<<>>), User(<<"Ann">>)}

\* fields.labels
RawLabels == {NoList, List(<<>>), List(<<"l1">>), List(<<"l1", "l2">>)}

\* fields.components and fields.fixVersions: lists of named objects
RawNamed ==
    {NoList, List(<<>>), List(<<[name |-> "n1"], [name |-> "n2"]>>)}

\* null, as the value of a field
JsNull == [t |-> "null"]

CustomPrefix == <<"customfield", "_">>

\* keys of the top-level fields besides the ones the transformer names
FieldKeys ==
    { <<"customfield", "_", "10001">>, <<"customfield", "_", "10002">>,
      <<"customfield", "_">>, <<"customfield", "10001">>,
      <<"x", "customfield", "_", "1">>, <<"Customfield", "_", "1">>,
      <<"environment">> }

FieldValues == {JsNull, Undefined, JsZero, Json("v")}

MaxFields == 2

\* Object.entries(fields) without the named fields: keys are distinct
RawFieldEntries ==
    UNION { { e \in [1..n -> [key : FieldKeys, value : FieldValues]] :
                \A i, j \in 1..n : i # j => e[i].key # e[j].key }
            : n \in 0..MaxFields }

PlainIssue ==
    [issuelinks |-> NoList, assignee |-> NoUser, labels |-> NoList,
     components |-> NoList, fixVersions |-> NoList, entries |-> <<>>]

\* raw issues: the links vary, or the named fields, or the other fields
RawIssues ==
    { [PlainIssue EXCEPT !.issuelinks = l] : l \in RawIssueLinks }
    \cup { [PlainIssue EXCEPT !.assignee = a, !.labels = l, !.components = c,
                              !.fixVersions = v] :
             a \in RawAssignees, l \in RawLabels, c \in RawNamed,
             v \in RawNamed }
    \cup { [PlainIssue EXCEPT !.entries = e] : e \in RawFieldEntries }

\* reading a property of undefined
TypeErrorThrown == [t |-> "TypeError"]

SimplifiedLink(id, type, direction, linkedIssue) ==
    [t |-> "link", id |-> id, type |-> type, direction |-> direction,
     key |-> linkedIssue.key, summary |-> linkedIssue.summary,
     status |-> linkedIssue.status, issuetype |-> linkedIssue.issuetype]

\* mutant of toSimplifiedLink: the direction is outward whenever the outward
\* issue is there
toSimplifiedLinkOutwardFirst(link) ==
    LET isInward == ~link.outwardIssue.def
        linkedIssue == IF isInward THEN link.inwardIssue ELSE link.outwardIssue
    IN  IF ~linkedIssue.def
        THEN TypeErrorThrown
        ELSE SimplifiedLink(link.id,
                            IF isInward THEN link.type.inward
                                        ELSE link.type.outward,
                            IF isInward THEN "inward" ELSE "outward",
                            linkedIssue)

\* the function mapped over fields.issuelinks; linkedIssue.key throws when
\* neither nested issue is there
toSimplifiedLink(link) ==
    LET isInward == link.inwardIssue.def
        linkedIssue == IF isInward THEN link.inwardIssue ELSE link.outwardIssue
    IN  IF ~linkedIssue.def
        THEN TypeErrorThrown
        ELSE SimplifiedLink(link.id,
                            IF isInward THEN link.type.inward
                                        ELSE link.type.outward,
                            IF isInward THEN "inward" ELSE "outward",
                            linkedIssue)

\* key.startsWith(prefix)
startsWith(key, prefix) ==
    /\ Len(key) >= Len(prefix)
    /\ SubSeq(key, 1, Len(prefix)) = prefix

\* mutant of customFieldsOf: a field is kept when its value is truthy
customFieldsOfTruthy(entries) ==
    LET Kept(e) == /\ startsWith(e.key, CustomPrefix)
                   /\ e.value \notin {JsNull, Undefined, JsZero}
    IN  SelectSeq(entries, Kept)

\* the loop over Object.entries(fields) that fills customFields
customFieldsOf(entries) ==
    LET Kept(e) == /\ startsWith(e.key, CustomPrefix)
                   /\ e.value # JsNull
                   /\ e.value # Undefined
    IN  SelectSeq(entries, Kept)

\* list?.map(x => x.name) || []
namesOrEmpty(list) ==
    IF list.def THEN [i \in 1..Len(list.list) |-> list.list[i].name] ELSE <<>>

\* the simplified issue before anything is transformed
NoSimplified ==
    [t |-> "none", links |-> NoList, assignee |-> Absent, labels |-> NoList,
     components |-> NoList, fixVersions |-> NoList, customFields |-> <<>>]

\* mutant of toSimplifiedIssue: the labels are passed on as they are
toSimplifiedIssueLabelsAsGiven(issue) ==
    LET n == Len(issue.issuelinks.list)
        links == [i \in 1..n |-> toSimplifiedLink(issue.issuelinks.list[i])]
    IN  IF \E i \in 1..n : links[i].t = "TypeError"
        THEN [NoSimplified EXCEPT !.t = "TypeError"]
        ELSE [t |-> "issue",
              links |-> IF issue.issuelinks.def THEN List(links) ELSE NoList,
              assignee |-> IF issue.assignee.is = "user"
                           THEN Str(issue.assignee.displayName) ELSE Absent,
              labels |-> issue.labels,
              components |-> List(namesOrEmpty(issue.components)),
              fixVersions |-> List(namesOrEmpty(issue.fixVersions)),
              customFields |-> customFieldsOf(issue.entries)]

\* toSimplifiedIssue(issue)
toSimplifiedIssue(issue) ==
    LET n == Len(issue.issuelinks.list)
        links == [i \in 1..n |-> toSimplifiedLink(issue.issuelinks.list[i])]
    IN  IF \E i \in 1..n : links[i].t = "TypeError"
        THEN [NoSimplified EXCEPT !.t = "TypeError"]
        ELSE [t |-> "issue",
              links |-> IF issue.issuelinks.def THEN List(links) ELSE NoList,
              assignee |-> IF issue.assignee.is = "user"
                           THEN Str(issue.assignee.displayName) ELSE Absent,
              labels |-> IF issue.labels.def THEN issue.labels ELSE List(<<>>),
              components |-> List(namesOrEmpty(issue.components)),
              fixVersions |-> List(namesOrEmpty(issue.fixVersions)),
              customFields |-> customFieldsOf(issue.entries)]

MaxIssues == 2

\* issues of a search result: plain, with named fields, with a custom field,
\* with an outward link, and with a link that has no nested issue
SearchIssues ==
    { PlainIssue,
      [PlainIssue EXCEPT !.assignee = User(<<"Ann">>),
                         !.labels = List(<<"l1">>)],
      [PlainIssue EXCEPT !.entries =
            << [key |-> <<"customfield", "_", "10001">>, value |-> JsZero] >>],
      [PlainIssue EXCEPT !.issuelinks =
            List(<< [id |-> "10", type |-> CHOOSE t \in LinkTypes :
                                              t.outward = "blocks",
                     inwardIssue |-> NoIssue,
                     outwardIssue |-> CHOOSE n \in NestedIssues :
                                          n.key = "A-2"] >>)],
      [PlainIssue EXCEPT !.issuelinks =
            List(<< [id |-> "10", type |-> CHOOSE t \in LinkTypes :
                                              t.outward = "blocks",
                     inwardIssue |-> NoIssue, outwardIssue |-> NoIssue] >>)] }

RawResults ==
    [total : {0, 2, 50}, startAt : {0, 1}, maxResults : {1, 50},
     issues : UNION { [1..n -> SearchIssues] : n \in 0..MaxIssues }]

NoSearchResult ==
    [t |-> "none", total |-> 0, startAt |-> 0, maxResults |-> 0,
     issues |-> <<>>]

\* mutant of toSimplifiedSearchResult: the issues come out in reverse order
toSimplifiedSearchResultReversed(result) ==
    LET n == Len(result.issues)
        issues == [i \in 1..n |-> toSimplifiedIssue(result.issues[n + 1 - i])]
    IN  IF \E i \in 1..n : issues[i].t = "TypeError"
        THEN [NoSearchResult EXCEPT !.t = "TypeError"]
        ELSE [t |-> "result", total |-> result.total,
              startAt |-> result.startAt, maxResults |-> result.maxResults,
              issues |-> issues]

\* toSimplifiedSearchResult(result); an issue whose transform throws makes
\* the map throw
toSimplifiedSearchResult(result) ==
    LET n == Len(result.issues)
        issues == [i \in 1..n |-> toSimplifiedIssue(result.issues[i])]
    IN  IF \E i \in 1..n : issues[i].t = "TypeError"
        THEN [NoSearchResult EXCEPT !.t = "TypeError"]
        ELSE [t |-> "result", total |-> result.total,
              startAt |-> result.startAt, maxResults |-> result.maxResults,
              issues |-> issues]

-----------------------------------------------------------------------------
(* config.ts: toToon. A value is a tree; a text is a sequence of characters  *)
(* and of words that hold no space and no line break; "\n" is the line       *)
(* break, "\\" the backslash                                                 *)

MaxElems == 2

ToonNull == [t |-> "null", s |-> <<>>, items |-> <<>>]

ToonString(s) == [t |-> "string", s |-> s, items |-> <<>>]

\* a number or a boolean, with the text String(obj) gives
ToonNumber(s) == [t |-> "number", s |-> s, items |-> <<>>]

ToonBoolean(s) == [t |-> "boolean", s |-> s, items |-> <<>>]

ToonArray(items) == [t |-> "array", s |-> <<>>, items |-> items]

\* an object: its keys in insertion order and, at the same places, its values
ToonObject(keys, values) == [t |-> "object", s |-> keys, items |-> values]

ToonScalars ==
    { ToonNull, ToonString(<<"x">>), ToonString(<<"line1", "\n", "line2">>),
      ToonNumber(<<"1">>), ToonBoolean(<<"true">>) }

ToonSmallObjects ==
    { ToonObject(<<>>, <<>>), ToonObject(<<"k">>, <<ToonNumber(<<"1">>)>>),
      ToonObject(<<"k">>, <<ToonString(<<"x">>)>>) }

ToonLists ==
    UNION { { ToonArray(l) : l \in [1..n -> ToonScalars \cup ToonSmallObjects] }
            : n \in 0..MaxElems }

ToonMembers == ToonScalars \cup ToonSmallObjects \cup ToonLists

\* the values handed to toToon
ToonValues ==
    ToonMembers
    \cup { ToonObject(<<"a">>, <<v>>) : v \in ToonMembers }
    \cup { ToonObject(<<"a", "b">>, <<v, w>>) :
             v \in {ToonNull, ToonNumber(<<"1">>)}, w \in ToonMembers }

\* '  '.repeat(indent)
repeat(indent) == [i \in 1..(2 * indent) |-> " "]

\* s.split(sep), sep one character; cur is the piece being read
RECURSIVE splitOn(_, _, _)
splitOn(s, sep, cur) ==
    IF s = <<>> THEN <<cur>>
    ELSE IF Head(s) = sep THEN <<cur>> \o splitOn(Tail(s), sep, <<>>)
    ELSE splitOn(Tail(s), sep, Append(cur, Head(s)))

\* pieces.join(sep)
RECURSIVE join(_, _)
join(pieces, sep) ==
    IF pieces = <<>> THEN <<>>
    ELSE IF Len(pieces) = 1 THEN pieces[1]
    ELSE pieces[1] \o sep \o join(Tail(pieces), sep)

\* typeof value === 'object'
TypeofObject(value) == value.t \in {"object", "array", "null"}

\* toToon(obj, indent); the templates write `|\\n` and `${key}:\\n`, a
\* backslash and the letter n
RECURSIVE toToon(_, _)
toToon(obj, indent) ==
    LET spaces == repeat(indent)
    IN  CASE obj.t = "null" -> <<"null">>
          [] obj.t = "string" ->
                IF \E i \in 1..Len(obj.s) : obj.s[i] = "\n"
                THEN LET lines == splitOn(obj.s, "\n", <<>>)
                     IN  <<"|", "\\", "n">> \o
                         join([i \in 1..Len(lines) |->
                                    spaces \o <<" ", " ">> \o lines[i]],
                              <<"\n">>)
                ELSE obj.s
          [] obj.t \in {"number", "boolean"} -> obj.s
          [] obj.t = "array" ->
                IF Len(obj.items) = 0 THEN <<"[", "]">>
                ELSE IF \A i \in 1..Len(obj.items) :
                            obj.items[i].t \in {"string", "number"}
                THEN <<"[">> \o
                     join([i \in 1..Len(obj.items) |-> obj.items[i].s],
                          <<",", " ">>) \o <<"]">>
                ELSE join([i \in 1..Len(obj.items) |->
                                spaces \o <<"-", " ">> \o
                                TrimStart(toToon(obj.items[i], indent + 1))],
                          <<"\n">>)
          [] obj.t = "object" ->
                LET kept == SelectSeq([i \in 1..Len(obj.s) |->
                                            [key |-> obj.s[i],
                                             value |-> obj.items[i]]],
                                      LAMBDA e : e.value.t # "null")
                    Entry(e) ==
                        LET valueStr == toToon(e.value, indent + 1)
                        IN  IF e.value.t = "object"
                            THEN spaces \o <<e.key, ":", "\\", "n">> \o valueStr
                            ELSE IF /\ e.value.t = "array"
                                    /\ Len(e.value.items) > 0
                                    /\ TypeofObject(e.value.items[1])
                            THEN spaces \o <<e.key, ":", "\\", "n">> \o valueStr
                            ELSE spaces \o <<e.key, ":", " ">> \o valueStr
                IN  IF Len(kept) = 0 THEN <<"{", "}">>
                    ELSE join([i \in 1..Len(kept) |-> Entry(kept[i])],
                              <<"\n">>)

-----------------------------------------------------------------------------
(* The state of the cache, of the configuration and of the pure functions   *)
(* checked on their own, before anything has run                            *)

\* the operation just performed: its key, the value it returned, and for a
\* step of withCache the frame as the step left it
NoOp ==
    [op |-> "none", key |-> "none", value |-> Undefined, frame |-> IdleCaller]

Op(op, key, value, frame) ==
    [op |-> op, key |-> key, value |-> value, frame |-> frame]

\* the last write of a key: value, instant, and ttlSeconds as passed
NoWrite == [has |-> FALSE, value |-> Undefined, at |-> 0, ttl |-> NoTtl]

Write(value, at, ttl) == [has |-> TRUE, value |-> value, at |-> at, ttl |-> ttl]

NoObs == [last |-> NoOp, written |-> [k \in Keys |-> NoWrite]]

\* an environment with the required variables set and no optional one
CompleteEnv ==
    [JIRA_BASE_URL |-> Str(<<"h", "/">>), JIRA_USERNAME |-> Str(<<"n">>),
     JIRA_PASSWORD |-> Str(<<"p">>), JIRA_PROJECTS_FILTER |-> Absent,
     JIRA_RETRY_COUNT |-> Absent, JIRA_CACHE_TTL |-> Absent,
     JIRA_TIMEOUT |-> Absent, JIRA_RETRY_DELAY |-> Absent,
     JIRA_SSL_VERIFY |-> Absent]

\* what was observed of the configuration: the call just made and its
\* outcome, the configuration the first successful getConfig since the last
\* reset returned (later: the call just made came after it), and whether a
\* reset has been made and no getConfig since (afterReset: the call just made
\* was the first after a reset)
NoCfgObs ==
    [op |-> "none", ok |-> FALSE, config |-> Null, error |-> Null,
     key |-> <<>>, allowed |-> FALSE, later |-> FALSE,
     afterReset |-> FALSE, first |-> Null, reset |-> FALSE]

PfIdle == [filter |-> Absent, key |-> <<>>, allowed |-> FALSE, done |-> FALSE]

TrIdle == [issue |-> PlainIssue, out |-> NoSimplified, done |-> FALSE]

SrIdle ==
    [result |-> [total |-> 0, startAt |-> 0, maxResults |-> 0,
                 issues |-> <<>>],
     out |-> NoSearchResult, done |-> FALSE]

TtIdle == [data |-> ToonNull, out |-> <<>>, done |-> FALSE]

\* let httpsAgent = null
NoAgent == [made |-> 0, rejectUnauthorized |-> TRUE]

OthersAtRest == sr = SrIdle /\ tt = TtIdle /\ httpsAgent = NoAgent

ReqAtRest == req = [r \in Reqs |-> IdleReq]

CacheAtRest ==
    /\ store = [k \in Keys |-> NoEntry]
    /\ now = 0
    /\ wc = [c \in Callers |-> IdleCaller]
    /\ obs = NoObs

ConfigAtRest ==
    /\ env = CompleteEnv
    /\ cachedConfig = Null
    /\ cfgObs = NoCfgObs

-----------------------------------------------------------------------------
(* cache.ts: one action per operation of the cache and per step of a        *)
(* withCache call between two suspension points                             *)

\* Date.now() advances to a later instant
Tick(t) ==
    /\ t > now
    /\ now' = t
    /\ obs' = [obs EXCEPT !.last = NoOp]
    /\ UNCHANGED <<store, wc, cachedConfig>>
    /\ UNCHANGED notCache

\* cache.get(key)
Get(key) ==
    LET g == cacheGet(store, key, now)
    IN  /\ store' = g.store
        /\ obs' = [obs EXCEPT !.last = Op("get", key, g.value, IdleCaller)]
        /\ UNCHANGED <<now, wc, cachedConfig>>
        /\ UNCHANGED notCache

\* cache.set(key, value, ttlSeconds): getConfig() first, which throws
\* without a complete environment
Set(key, value, ttlSeconds) ==
    LET c == getConfig(cachedConfig, env)
    IN  /\ cachedConfig' = c.cachedConfig
        /\ store' = IF c.ok
                    THEN cacheSet(store, key, value, ttlSeconds, c.config, now)
                    ELSE store
        /\ obs' = [obs EXCEPT
                     !.last = Op("set", key, value, IdleCaller),
                     !.written[key] =
                         IF c.ok THEN Write(value, now, ttlSeconds) ELSE @]
        /\ UNCHANGED <<now, wc>>
        /\ UNCHANGED notCache

\* cache.delete(key); the value observed is the value removed
Delete(key) ==
    /\ store' = cacheDelete(store, key)
    /\ obs' = [obs EXCEPT !.last = Op("delete", key, store[key].value, IdleCaller),
                          !.written[key] = NoWrite]
    /\ UNCHANGED <<now, wc, cachedConfig>>
    /\ UNCHANGED notCache

\* cache.clear()
Clear ==
    /\ store' = cacheClear(store)
    /\ obs' = [obs EXCEPT !.last = Op("clear", "none", Undefined, IdleCaller),
                          !.written = [k \in Keys |-> NoWrite]]
    /\ UNCHANGED <<now, wc, cachedConfig>>
    /\ UNCHANGED notCache

\* another call is awaiting its producer for the key
Racing(c, key) ==
    \E o \in Callers \ {c} : wc[o].pc = "awaiting" /\ wc[o].key = key

\* withCache(key, fn, ttlSeconds) is called: it returns on a hit, and its
\* frame is gone, or it invokes fn and awaits it
WithCache(c, key, ttlSeconds) ==
    LET w == withCacheCall(store, key, ttlSeconds, now)
        f == [w.frame EXCEPT !.raced = Racing(c, key)]
    IN  /\ wc[c].pc = "idle"
        /\ store' = w.store
        /\ wc' = [o \in Callers |->
                     IF o = c
                     THEN IF f.pc = "awaiting" THEN f ELSE IdleCaller
                     ELSE IF f.pc = "awaiting" /\ wc[o].pc = "awaiting"
                             /\ wc[o].key = key
                          THEN [wc[o] EXCEPT !.raced = TRUE]
                          ELSE wc[o]]
        /\ obs' = [obs EXCEPT !.last = Op("call", key, f.cached, f)]
        /\ UNCHANGED <<now, cachedConfig>>
        /\ UNCHANGED notCache

\* the producer of caller c resolves with v; the call stores and returns it
\* (cache.set throws if getConfig does), and its frame is gone
ProducerResolves(c, v) ==
    LET g == getConfig(cachedConfig, env)
        w == withCacheOnResolved(wc[c], store, v, g.config, now)
        f == IF g.ok THEN w.frame
             ELSE [wc[c] EXCEPT !.pc = "thrown", !.produced = v]
    IN  /\ wc[c].pc = "awaiting"
        /\ cachedConfig' = g.cachedConfig
        /\ store' = IF g.ok THEN w.store ELSE store
        /\ wc' = [o \in Callers |->
                     IF o = c THEN IdleCaller
                     ELSE IF wc[o].pc = "awaiting" /\ wc[o].key = wc[c].key
                          THEN [wc[o] EXCEPT !.partner = f.result]
                          ELSE wc[o]]
        /\ obs' = [obs EXCEPT
                     !.last = Op("resolve", wc[c].key, f.result, f),
                     !.written[wc[c].key] =
                         IF g.ok THEN Write(v, now, wc[c].ttl) ELSE @]
        /\ UNCHANGED now
        /\ UNCHANGED notCache

\* the producer of caller c rejects, and so does the call
ProducerRejects(c) ==
    /\ wc[c].pc = "awaiting"
    /\ wc' = [wc EXCEPT ![c] = IdleCaller]
    /\ obs' = [obs EXCEPT !.last = Op("reject", wc[c].key, Undefined,
                                      withCacheOnRejected(wc[c]))]
    /\ UNCHANGED <<store, now, cachedConfig>>
    /\ UNCHANGED notCache

-----------------------------------------------------------------------------
(* config.ts: one action per exported function, and the changes of the      *)
(* environment between calls                                                *)

EnvNames ==
    {"JIRA_BASE_URL", "JIRA_USERNAME", "JIRA_PASSWORD", "JIRA_PROJECTS_FILTER",
     "JIRA_RETRY_COUNT", "JIRA_CACHE_TTL"}

\* the values the environment gives a variable
EnvValues(name) ==
    CASE name = "JIRA_BASE_URL" ->
            {Absent, Str(<<>>), Str(<<"h">>), Str(<<"h", "/">>)}
      [] name = "JIRA_USERNAME" -> {Absent, Str(<<"n">>)}
      [] name = "JIRA_PASSWORD" -> {Absent, Str(<<>>), Str(<<"p">>)}
      [] name = "JIRA_PROJECTS_FILTER" ->
            {Absent, Str(<<"a">>), Str(<<" ", ",">>)}
      [] name = "JIRA_RETRY_COUNT" -> {Absent, Str(<<"5">>), Str(<<"x">>)}
      [] OTHER -> {Absent, Str(<<"1">>)}

\* project keys asked about
AskedKeys == {<<"a">>, <<"B">>}

\* process.env[name] is set or deleted
SetEnv(name, x) ==
    /\ env[name] # x
    /\ env' = [env EXCEPT ![name] = x]
    /\ cfgObs' = [cfgObs EXCEPT !.op = "none", !.ok = FALSE, !.config = Null,
                                !.error = Null, !.key = <<>>,
                                !.allowed = FALSE, !.later = FALSE,
                                !.afterReset = FALSE]
    /\ UNCHANGED cachedConfig
    /\ UNCHANGED notConfig

\* what a call of getConfig leaves in cfgObs
AfterGetConfig(o, op, g, key, allowed) ==
    [o EXCEPT !.op = op, !.ok = g.ok, !.config = g.config, !.error = g.error,
              !.key = key, !.allowed = allowed,
              !.later = o.first # Null,
              !.afterReset = o.reset,
              !.first = IF @ = Null /\ g.ok THEN g.config ELSE @,
              !.reset = FALSE]

\* getConfig()
GetConfig ==
    LET g == getConfig(cachedConfig, env)
    IN  /\ cachedConfig' = g.cachedConfig
        /\ cfgObs' = AfterGetConfig(cfgObs, "getConfig", g, <<>>, FALSE)
        /\ UNCHANGED env
        /\ UNCHANGED notConfig

\* clearConfigCache()
ClearConfigCache ==
    /\ cachedConfig' = Null
    /\ cfgObs' = [NoCfgObs EXCEPT !.op = "clearConfigCache", !.reset = TRUE]
    /\ UNCHANGED env
    /\ UNCHANGED notConfig

\* isProjectAllowed(projectKey); it throws what getConfig throws
IsProjectAllowed(projectKey) ==
    LET g == getConfig(cachedConfig, env)
    IN  /\ cachedConfig' = g.cachedConfig
        /\ cfgObs' = AfterGetConfig(cfgObs, "isProjectAllowed", g, projectKey,
                                    g.ok /\ isProjectAllowed(g.config, projectKey))
        /\ UNCHANGED env
        /\ UNCHANGED notConfig

-----------------------------------------------------------------------------
(* The requests of the process: one action per step between two suspension  *)
(* points of a logical request                                              *)

\* values of Math.random(), a number in [0, 1): 0 and 1/2
Samples == {[num |-> 0, den |-> 2], [num |-> 1, den |-> 2]}

\* the abort signal of the current attempt's controller
Aborted(q) == Len(q.timers) > 0 /\ q.timers[Len(q.timers)].aborted

BkIdle == [attempt |-> 0, baseDelay |-> 0, k |-> [num |-> 0, den |-> 2],
           delay |-> Num(0), done |-> FALSE]

Init ==
    /\ OthersAtRest
    /\ req = [r \in Reqs |-> IdleReq]
    /\ bk = BkIdle
    /\ CacheAtRest
    /\ ConfigAtRest
    /\ pf = PfIdle
    /\ tr = TrIdle

\* a tool calls jiraFetch or jiraAgileFetch; the call runs to its first await
Start(r, fam, c) ==
    /\ req[r].pc = "idle"
    /\ req' = [req EXCEPT ![r] = IF fam = "api"
                                 THEN jiraFetchStart(IdleReq, c)
                                 ELSE jiraAgileFetchStart(IdleReq, c)]
    /\ httpsAgent' = IF req'[r].agent = "attached"
                     THEN getHttpsAgent(httpsAgent, c.sslVerify)
                     ELSE httpsAgent
    /\ UNCHANGED notClient

\* fetch resolves with a response (it cannot once its signal has aborted)
FetchResponds(r, response) ==
    /\ req[r].pc = "fetch"
    /\ ~Aborted(req[r])
    /\ LET q == FetchSettled(req[r], Responded(response.status))
       IN  req' = [req EXCEPT ![r] = IF q.family = "api"
                                     THEN jiraFetchOnResponse(q, response)
                                     ELSE jiraAgileFetchOnResponse(q, response)]
    /\ UNCHANGED notReq

\* fetch rejects with an error of its own
FetchRejects(r, name, k) ==
    /\ req[r].pc = "fetch"
    /\ ~Aborted(req[r])
    /\ LET q == FetchSettled(req[r], Threw(name))
           err == PlainError(name, "fetch failed")
       IN  req' = [req EXCEPT ![r] = IF q.family = "api"
                                     THEN jiraFetchCatch(q, err, k)
                                     ELSE jiraAgileFetchCatch(q, err, k)]
    /\ UNCHANGED notReq

\* the timer of attempt i fires: controller.abort()
TimerFires(r, i) ==
    /\ i \in 1..Len(req[r].timers)
    /\ req[r].timers[i].state = "armed"
    /\ req' = [req EXCEPT ![r].timers[i].state = "fired",
                          ![r].timers[i].aborted = TRUE]
    /\ UNCHANGED notReq

\* the aborted fetch rejects with an AbortError
FetchAborts(r, k) ==
    /\ req[r].pc = "fetch"
    /\ Aborted(req[r])
    /\ LET q == FetchSettled(req[r], Threw("AbortError"))
           err == PlainError("AbortError", "This operation was aborted")
       IN  req' = [req EXCEPT ![r] = IF q.family = "api"
                                     THEN jiraFetchCatch(q, err, k)
                                     ELSE jiraAgileFetchCatch(q, err, k)]
    /\ UNCHANGED notReq

\* parseErrorResponse resolves
ErrorTextParsed(r, k) ==
    /\ req[r].pc = "parseError"
    /\ req' = [req EXCEPT ![r] = IF req[r].family = "api"
                                 THEN jiraFetchOnErrorText(req[r], k)
                                 ELSE jiraAgileFetchOnErrorText(req[r], k)]
    /\ UNCHANGED notReq

\* response.json() settles
BodyDecoded(r) ==
    /\ req[r].pc = "decode"
    /\ req' = [req EXCEPT ![r] = IF req[r].family = "api"
                                 THEN jiraFetchOnDecoded(req[r])
                                 ELSE jiraAgileFetchOnDecoded(req[r])]
    /\ UNCHANGED notReq

\* a timer set by sleep fires and resolves its promise; the frame awaiting it
\* goes on
SleepTimerFires(r) ==
    /\ req[r].pendingSleeps > 0
    /\ LET q == [req[r] EXCEPT !.pendingSleeps = @ - 1]
       IN  req' = [req EXCEPT ![r] = IF q.pc # "sleep" THEN q
                                     ELSE IF q.family = "api"
                                     THEN jiraFetchAfterSleep(q)
                                     ELSE jiraAgileFetchAfterSleep(q)]
    /\ UNCHANGED notReq

\* the caller has received the result or the error; the frame is gone
Release(r) ==
    /\ req[r].pc \in {"returned", "thrown"}
    /\ req[r].pendingSleeps = 0
    /\ \A i \in 1..Len(req[r].timers) : req[r].timers[i].state # "armed"
    /\ req' = [req EXCEPT ![r] = IdleReq]
    /\ UNCHANGED notReq

\* no other logical request is under way
Alone(r) == \A o \in Reqs \ {r} : req[o].pc = "idle"

\* a new call takes the first free frame
FirstFree(r) == \A o \in Reqs : o < r => req[o].pc # "idle"

\* requests made one after the other
Next ==
    \/ \E r \in Reqs, fam \in Families, c \in Configs :
            Alone(r) /\ FirstFree(r) /\ Start(r, fam, c)
    \/ \E r \in Reqs, response \in Responses : FetchResponds(r, response)
    \/ \E r \in Reqs, name \in ThrownNames, k \in Samples :
            FetchRejects(r, name, k)
    \/ \E r \in Reqs, i \in 1..(MaxRetry + 2) : TimerFires(r, i)
    \/ \E r \in Reqs, k \in Samples : FetchAborts(r, k)
    \/ \E r \in Reqs, k \in Samples : ErrorTextParsed(r, k)
    \/ \E r \in Reqs : BodyDecoded(r)
    \/ \E r \in Reqs : SleepTimerFires(r)
    \/ \E r \in Reqs : Release(r)

Spec == Init /\ [][Next]_vars

-----------------------------------------------------------------------------
(* requests of both families under way together, with TLS verification on   *)
(* or off                                                                    *)

\* responses of the concurrent requests: a 204 and a 404
AgentResponses ==
    {resp \in Responses :
        \/ resp.status = 204
        \/ resp.status = 404 /\ resp.body = TextBody("oops")}

NextAgent ==
    \/ \E r \in Reqs, fam \in Families, c \in AgentConfigs : Start(r, fam, c)
    \/ \E r \in Reqs, response \in AgentResponses : FetchResponds(r, response)
    \/ \E r \in Reqs, name \in ThrownNames, k \in Samples :
            FetchRejects(r, name, k)
    \/ \E r \in Reqs, i \in 1..(MaxRetry + 2) : TimerFires(r, i)
    \/ \E r \in Reqs, k \in Samples : FetchAborts(r, k)
    \/ \E r \in Reqs, k \in Samples : ErrorTextParsed(r, k)
    \/ \E r \in Reqs : Release(r)

SpecAgent == Init /\ [][NextAgent]_vars

-----------------------------------------------------------------------------
(* a request of each family, frame 1 with jiraFetch and frame 2 with         *)
(* jiraAgileFetch, started with the same configuration and fed the same      *)
(* outcome at every step                                                     *)

TwinStart(c) ==
    /\ req[1].pc = "idle"
    /\ req[2].pc = "idle"
    /\ req' = [req EXCEPT ![1] = jiraFetchStart(IdleReq, c),
                          ![2] = jiraAgileFetchStart(IdleReq, c)]
    /\ LET first == IF req'[1].agent = "attached"
                    THEN getHttpsAgent(httpsAgent, c.sslVerify)
                    ELSE httpsAgent
       IN  httpsAgent' = IF req'[2].agent = "attached"
                         THEN getHttpsAgent(first, c.sslVerify)
                         ELSE first
    /\ UNCHANGED notClient

TwinResponds(response) ==
    /\ req[1].pc = "fetch" /\ ~Aborted(req[1])
    /\ req[2].pc = "fetch" /\ ~Aborted(req[2])
    /\ LET o == Responded(response.status)
       IN  req' = [req EXCEPT
                ![1] = jiraFetchOnResponse(FetchSettled(req[1], o), response),
                ![2] = jiraAgileFetchOnResponse(FetchSettled(req[2], o),
                                                response)]
    /\ UNCHANGED notReq

TwinRejects(name, k) ==
    /\ req[1].pc = "fetch" /\ ~Aborted(req[1])
    /\ req[2].pc = "fetch" /\ ~Aborted(req[2])
    /\ LET err == PlainError(name, "fetch failed")
       IN  req' = [req EXCEPT
                ![1] = jiraFetchCatch(FetchSettled(req[1], Threw(name)),
                                      err, k),
                ![2] = jiraAgileFetchCatch(FetchSettled(req[2], Threw(name)),
                                           err, k)]
    /\ UNCHANGED notReq

\* the timers of the two current attempts fire
TwinTimerFires ==
    /\ \A r \in Reqs :
            /\ Len(req[r].timers) > 0
            /\ req[r].timers[Len(req[r].timers)].state = "armed"
    /\ req' = [r \in Reqs |->
                [req[r] EXCEPT !.timers[Len(req[r].timers)].state = "fired",
                               !.timers[Len(req[r].timers)].aborted = TRUE]]
    /\ UNCHANGED notReq

TwinAborts(k) ==
    /\ req[1].pc = "fetch" /\ Aborted(req[1])
    /\ req[2].pc = "fetch" /\ Aborted(req[2])
    /\ LET o == Threw("AbortError")
           err == PlainError("AbortError", "This operation was aborted")
       IN  req' = [req EXCEPT
                ![1] = jiraFetchCatch(FetchSettled(req[1], o), err, k),
                ![2] = jiraAgileFetchCatch(FetchSettled(req[2], o), err, k)]
    /\ UNCHANGED notReq

TwinErrorTextParsed(k) ==
    /\ req[1].pc = "parseError"
    /\ req[2].pc = "parseError"
    /\ req' = [req EXCEPT ![1] = jiraFetchOnErrorText(req[1], k),
                          ![2] = jiraAgileFetchOnErrorText(req[2], k)]
    /\ UNCHANGED notReq

TwinBodyDecoded ==
    /\ req[1].pc = "decode"
    /\ req[2].pc = "decode"
    /\ req' = [req EXCEPT ![1] = jiraFetchOnDecoded(req[1]),
                          ![2] = jiraAgileFetchOnDecoded(req[2])]
    /\ UNCHANGED notReq

TwinSleepTimerFires ==
    /\ req[1].pc = "sleep" /\ req[1].pendingSleeps > 0
    /\ req[2].pc = "sleep" /\ req[2].pendingSleeps > 0
    /\ req' = [req EXCEPT
            ![1] = jiraFetchAfterSleep([req[1] EXCEPT !.pendingSleeps = @ - 1]),
            ![2] = jiraAgileFetchAfterSleep([req[2] EXCEPT
                                                !.pendingSleeps = @ - 1])]
    /\ UNCHANGED notReq

NextTwin ==
    \/ \E c \in Configs \cup AgentConfigs : TwinStart(c)
    \/ \E response \in Responses : TwinResponds(response)
    \/ \E name \in ThrownNames, k \in Samples : TwinRejects(name, k)
    \/ TwinTimerFires
    \/ \E k \in Samples : TwinAborts(k)
    \/ \E k \in Samples : TwinErrorTextParsed(k)
    \/ TwinBodyDecoded
    \/ TwinSleepTimerFires

SpecTwin == Init /\ [][NextTwin]_vars

-----------------------------------------------------------------------------
(* requests made one after the other in an environment where every fetch     *)
(* settles, every body read settles and every sleep timer fires              *)

\* the responses of that environment: a 200 with a body that decodes and one
\* that does not, a 204, and a 404 and a 503 with a text body
LiveResponses ==
    {resp \in Responses :
        \/ resp.status = 200 /\ resp.contentLength = "n"
                             /\ resp.body \in {OkBody(TRUE, "b1"),
                                               OkBody(FALSE, "<html>")}
        \/ resp.status = 204
        \/ resp.status \in {404, 503} /\ resp.body = TextBody("oops")}

\* the fetch of request r settles: with a response, with an error of its own,
\* or aborted by the timer of the attempt
FetchSettles(r) ==
    \/ \E response \in LiveResponses : FetchResponds(r, response)
    \/ \E name \in ThrownNames, k \in Samples : FetchRejects(r, name, k)
    \/ \E k \in Samples : FetchAborts(r, k)

\* the body of the response of request r has been read
BodyRead(r) ==
    \/ \E k \in Samples : ErrorTextParsed(r, k)
    \/ BodyDecoded(r)

NextLive ==
    \/ \E r \in Reqs, fam \in Families, c \in Configs :
            Alone(r) /\ FirstFree(r) /\ Start(r, fam, c)
    \/ \E r \in Reqs : FetchSettles(r)
    \/ \E r \in Reqs, i \in 1..(MaxRetry + 2) : TimerFires(r, i)
    \/ \E r \in Reqs : BodyRead(r)
    \/ \E r \in Reqs : SleepTimerFires(r)
    \/ \E r \in Reqs : Release(r)

SpecLive ==
    /\ Init
    /\ [][NextLive]_vars
    /\ \A r \in Reqs :
            /\ WF_vars(FetchSettles(r))
            /\ WF_vars(BodyRead(r))
            /\ WF_vars(SleepTimerFires(r))

-----------------------------------------------------------------------------
(* requests that read the configuration themselves, while the environment   *)
(* is changed and the configuration reset and reloaded around them          *)

\* two environments that differ in the timeout, the retry count, the retry
\* delay, the base URL and the password; the numbers are decimal
ReloadEnvs ==
    {[CompleteEnv EXCEPT !.JIRA_RETRY_COUNT = Str(<<"1">>)],
     [CompleteEnv EXCEPT !.JIRA_BASE_URL = Str(HttpsBase),
                         !.JIRA_PASSWORD = Str(<<"q">>),
                         !.JIRA_TIMEOUT = Str(<<"5">>),
                         !.JIRA_RETRY_COUNT = Str(<<"2">>),
                         !.JIRA_RETRY_DELAY = Str(<<"0">>)]}

\* const { baseUrl, timeout, retryCount, retryDelay, sslVerify } =
\* getConfig(), and the { username, password } of getAuthHeader
RequestConfig(config) ==
    [timeout |-> config.timeout.v, retryCount |-> config.retryCount,
     retryDelay |-> config.retryDelay.v, sslVerify |-> config.sslVerify,
     baseUrl |-> config.baseUrl,
     username |-> config.username, password |-> config.password]

\* a tool calls jiraFetch or jiraAgileFetch, which calls getConfig; what
\* getConfig throws rejects the call
StartConfigured(r, fam) ==
    /\ req[r].pc = "idle"
    /\ LET g == getConfig(cachedConfig, env)
       IN  /\ cachedConfig' = g.cachedConfig
           /\ req' = [req EXCEPT ![r] =
                        IF ~g.ok THEN Throw(IdleReq, g.error)
                        ELSE IF fam = "api"
                        THEN jiraFetchStart(IdleReq, RequestConfig(g.config))
                        ELSE jiraAgileFetchStart(IdleReq,
                                                 RequestConfig(g.config))]
    /\ httpsAgent' = IF req'[r].agent = "attached"
                     THEN getHttpsAgent(httpsAgent, req'[r].sslVerify)
                     ELSE httpsAgent
    /\ UNCHANGED <<bk, store, now, wc, obs, env, cfgObs, pf, tr, sr, tt>>

\* process.env is rewritten, variable by variable, between two steps of the
\* requests
SetEnvAll(e) ==
    /\ env # e
    /\ env' = e
    /\ cfgObs' = [cfgObs EXCEPT !.op = "none", !.ok = FALSE, !.config = Null,
                                !.error = Null, !.key = <<>>,
                                !.allowed = FALSE, !.later = FALSE,
                                !.afterReset = FALSE]
    /\ UNCHANGED cachedConfig
    /\ UNCHANGED notConfig

InitReload ==
    /\ OthersAtRest
    /\ ReqAtRest
    /\ bk = BkIdle
    /\ CacheAtRest
    /\ env \in ReloadEnvs
    /\ cachedConfig = Null
    /\ cfgObs = NoCfgObs
    /\ pf = PfIdle
    /\ tr = TrIdle

NextReload ==
    \/ \E r \in Reqs, fam \in Families :
            Alone(r) /\ FirstFree(r) /\ StartConfigured(r, fam)
    \/ \E e \in ReloadEnvs : SetEnvAll(e)
    \/ GetConfig
    \/ ClearConfigCache
    \/ \E r \in Reqs, response \in LiveResponses : FetchResponds(r, response)
    \/ \E r \in Reqs, name \in ThrownNames, k \in Samples :
            FetchRejects(r, name, k)
    \/ \E r \in Reqs, i \in 1..(MaxRetry + 2) : TimerFires(r, i)
    \/ \E r \in Reqs, k \in Samples : FetchAborts(r, k)
    \/ \E r \in Reqs, k \in Samples : ErrorTextParsed(r, k)
    \/ \E r \in Reqs : BodyDecoded(r)
    \/ \E r \in Reqs : SleepTimerFires(r)
    \/ \E r \in Reqs : Release(r)

SpecReload == InitReload /\ [][NextReload]_vars

-----------------------------------------------------------------------------
(* two requests that retry, interleaved at every await *)

\* configurations with no retry or one
InterleaveConfigs == {c \in Configs : c.retryCount \in {Num(0), Num(1)}}

\* the responses they get: a 204, and a 404 and a 503 with a text body
InterleaveResponses ==
    {resp \in Responses :
        \/ resp.status = 204
        \/ resp.status \in {404, 503} /\ resp.body = TextBody("oops")}

NextInterleave ==
    \/ \E r \in Reqs, fam \in Families, c \in InterleaveConfigs :
            Start(r, fam, c)
    \/ \E r \in Reqs, response \in InterleaveResponses :
            FetchResponds(r, response)
    \/ \E r \in Reqs, name \in ThrownNames, k \in Samples :
            FetchRejects(r, name, k)
    \/ \E r \in Reqs, i \in 1..(MaxRetry + 2) : TimerFires(r, i)
    \/ \E r \in Reqs, k \in Samples : FetchAborts(r, k)
    \/ \E r \in Reqs, k \in Samples : ErrorTextParsed(r, k)
    \/ \E r \in Reqs : SleepTimerFires(r)
    \/ \E r \in Reqs : Release(r)

SpecInterleave == Init /\ [][NextInterleave]_vars

-----------------------------------------------------------------------------
(* calculateBackoff on its own *)

BaseDelays == {0, 1, 3, 1000, 7500, 30000, 40000}

\* values of Math.random(): 0, 1/4, 1/2, 3/4, 999/1000
BackoffSamples ==
    {[num |-> n, den |-> 4] : n \in 0..3} \cup {[num |-> 999, den |-> 1000]}

InitBackoff ==
    /\ OthersAtRest
    /\ req = [r \in Reqs |-> IdleReq]
    /\ bk \in [attempt : 0..MaxAttemptIndex, baseDelay : BaseDelays,
               k : BackoffSamples, delay : {Num(0)}, done : {FALSE}]
    /\ CacheAtRest
    /\ ConfigAtRest
    /\ pf = PfIdle
    /\ tr = TrIdle

ComputeBackoff ==
    /\ ~bk.done
    /\ bk' = [bk EXCEPT !.delay = calculateBackoff(bk.attempt, bk.baseDelay, bk.k),
                        !.done = TRUE]
    /\ UNCHANGED notBk

NextBackoff == ComputeBackoff

SpecBackoff == InitBackoff /\ [][NextBackoff]_vars

-----------------------------------------------------------------------------
(* The cache on its own: direct operations, two withCache callers, the clock *)

InitCache ==
    /\ OthersAtRest
    /\ ReqAtRest
    /\ bk = BkIdle
    /\ CacheAtRest
    /\ ConfigAtRest
    /\ pf = PfIdle
    /\ tr = TrIdle

\* k1 is the key under study: it takes every value and is the key withCache
\* is called for; k2 is a bystander entry
StoredValues(key) == IF key = "k1" THEN CacheValues ELSE {Json("b1")}

WithCacheKeys == {"k1"}

\* no other withCache call is under way
NoOtherCall(c) == \A o \in Callers \ {c} : wc[o].pc = "idle"

\* a new call takes the first free frame
FirstFreeCaller(c) == \A o \in Callers : o < c => wc[o].pc # "idle"

\* the cache used by one caller at a time
NextCache ==
    \/ \E t \in Instants : Tick(t)
    \/ \E key \in Keys : Get(key)
    \/ \E key \in Keys, t \in TtlArgs : \E v \in StoredValues(key) :
            Set(key, v, t)
    \/ \E key \in Keys : Delete(key)
    \/ Clear
    \/ \E c \in Callers, key \in WithCacheKeys, t \in TtlArgs :
            NoOtherCall(c) /\ FirstFreeCaller(c) /\ WithCache(c, key, t)
    \/ \E c \in Callers, v \in CacheValues : ProducerResolves(c, v)
    \/ \E c \in Callers : ProducerRejects(c)

SpecCache == InitCache /\ [][NextCache]_vars

-----------------------------------------------------------------------------
(* withCache calls that interleave at the await of their producers *)

NextRace ==
    \/ \E t \in Instants : Tick(t)
    \/ \E key \in WithCacheKeys : Get(key)
    \/ \E c \in Callers, key \in WithCacheKeys, t \in TtlArgs :
            FirstFreeCaller(c) /\ WithCache(c, key, t)
    \/ \E c \in Callers, v \in CacheValues : ProducerResolves(c, v)
    \/ \E c \in Callers : ProducerRejects(c)

SpecRace == InitCache /\ [][NextRace]_vars

-----------------------------------------------------------------------------
(* The configuration on its own *)

InitConfig ==
    /\ OthersAtRest
    /\ ReqAtRest
    /\ bk = BkIdle
    /\ CacheAtRest
    /\ env \in {CompleteEnv, [CompleteEnv EXCEPT !.JIRA_BASE_URL = Absent]}
    /\ cachedConfig = Null
    /\ cfgObs = NoCfgObs
    /\ pf = PfIdle
    /\ tr = TrIdle

NextConfig ==
    \/ \E name \in EnvNames : \E x \in EnvValues(name) : SetEnv(name, x)
    \/ GetConfig
    \/ ClearConfigCache
    \/ \E projectKey \in AskedKeys : IsProjectAllowed(projectKey)

SpecConfig == InitConfig /\ [][NextConfig]_vars

-----------------------------------------------------------------------------
(* isProjectAllowed on its own, over every filter string and key *)

\* longest JIRA_PROJECTS_FILTER and longest project key
MaxFilterLen == 4

MaxKeyLen == 2

StringsUpTo(chars, n) == UNION { [1..m -> chars] : m \in 0..n }

FilterStrings ==
    {Absent} \cup {Str(s) : s \in StringsUpTo({"a", "B", " ", ","}, MaxFilterLen)}

ProjectKeys == StringsUpTo({"a", "A", "B"}, MaxKeyLen) \ {<<>>}

InitFilter ==
    /\ OthersAtRest
    /\ ReqAtRest
    /\ bk = BkIdle
    /\ CacheAtRest
    /\ ConfigAtRest
    /\ pf \in [filter : FilterStrings, key : ProjectKeys,
               allowed : {FALSE}, done : {FALSE}]
    /\ tr = TrIdle

\* getConfig() in an environment with the filter string, then
\* isProjectAllowed(key)
CheckProject ==
    LET g == getConfig(Null, [CompleteEnv EXCEPT !.JIRA_PROJECTS_FILTER = pf.filter])
    IN  /\ ~pf.done
        /\ pf' = [pf EXCEPT !.allowed = isProjectAllowed(g.config, pf.key),
                            !.done = TRUE]
        /\ UNCHANGED notPf

NextFilter == CheckProject

SpecFilter == InitFilter /\ [][NextFilter]_vars

-----------------------------------------------------------------------------
(* toSimplifiedIssue on its own, over every raw issue *)

InitTransform ==
    /\ OthersAtRest
    /\ ReqAtRest
    /\ bk = BkIdle
    /\ CacheAtRest
    /\ ConfigAtRest
    /\ pf = PfIdle
    /\ tr \in [issue : RawIssues, out : {TrIdle.out}, done : {FALSE}]

Transform ==
    /\ ~tr.done
    /\ tr' = [tr EXCEPT !.out = toSimplifiedIssue(tr.issue), !.done = TRUE]
    /\ UNCHANGED notTr

NextTransform == Transform

SpecTransform == InitTransform /\ [][NextTransform]_vars

-----------------------------------------------------------------------------
(* toSimplifiedSearchResult on its own *)

InitSearch ==
    /\ ReqAtRest
    /\ bk = BkIdle
    /\ CacheAtRest
    /\ ConfigAtRest
    /\ pf = PfIdle
    /\ tr = TrIdle
    /\ tt = TtIdle
    /\ httpsAgent = NoAgent
    /\ sr \in [result : RawResults, out : {NoSearchResult}, done : {FALSE}]

TransformSearch ==
    /\ ~sr.done
    /\ sr' = [sr EXCEPT !.out = toSimplifiedSearchResult(sr.result),
                        !.done = TRUE]
    /\ UNCHANGED notSr

NextSearch == TransformSearch

SpecSearch == InitSearch /\ [][NextSearch]_vars

-----------------------------------------------------------------------------
(* toToon on its own: formatResponse(data) when the response format is TOON *)

InitToon ==
    /\ ReqAtRest
    /\ bk = BkIdle
    /\ CacheAtRest
    /\ ConfigAtRest
    /\ pf = PfIdle
    /\ tr = TrIdle
    /\ sr = SrIdle
    /\ httpsAgent = NoAgent
    /\ tt \in [data : ToonValues, out : {<<>>}, done : {FALSE}]

ToToon ==
    /\ ~tt.done
    /\ tt' = [tt EXCEPT !.out = toToon(tt.data, 0), !.done = TRUE]
    /\ UNCHANGED notTt

NextToon == ToToon

SpecToon == InitToon /\ [][NextToon]_vars

-----------------------------------------------------------------------------
(* Properties of one logical request *)

\* the configured retry count is a number r >= 0
RetryCountNat(q) == q.retryCount.k = "num" /\ q.retryCount.v >= 0

Last(seq) == seq[Len(seq)]

Terminated(q) == q.pc \in {"returned", "thrown"}

RetryableStatuses == {429, 502, 503, 504}

\* a non-2xx response whose status is not retryable
FatalResponse(o) ==
    /\ o.t = "response"
    /\ ~(o.status >= 200 /\ o.status <= 299)
    /\ o.status \notin RetryableStatuses

RetryableResponse(o) == o.t = "response" /\ o.status \in RetryableStatuses

OkResponse(o) == o.t = "response" /\ o.status >= 200 /\ o.status <= 299

\* C1: for a retry count r >= 0 a logical request makes at most r+1 network
\* attempts, and its attempts carry the indices 0, 1, 2, ... in this order,
\* none of them twice
C1_AttemptsBounded ==
    \A r \in Reqs :
        RetryCountNat(req[r]) =>
            /\ Len(req[r].attempts) <= req[r].retryCount.v + 1
            /\ \A i \in 1..Len(req[r].attempts) : req[r].attempts[i] = i - 1

\* a request that used all of its MaxRetry+1 attempts
C1_Witness ==
    \E r \in Reqs :
        /\ req[r].retryCount = Num(MaxRetry)
        /\ Len(req[r].attempts) = MaxRetry + 1
        /\ Terminated(req[r])

\* C2: a non-2xx response with a status outside {429, 502, 503, 504} on
\* attempt n ends the request with an error: it is the last outcome, no
\* attempt n+1 is made and no backoff wait follows it
C2_FatalStatusEnds ==
    \A r \in Reqs : \A i \in 1..Len(req[r].outcomes) :
        FatalResponse(req[r].outcomes[i]) =>
            /\ i = Len(req[r].outcomes)
            /\ Len(req[r].attempts) = i
            /\ Len(req[r].sleeps) = i - 1
            /\ req[r].pendingSleeps = 0
            /\ req[r].inflight = 0
            /\ req[r].pc \in {"parseError", "thrown"}
            /\ req[r].pc = "thrown" =>
                    /\ req[r].error.name = "JiraApiException"
                    /\ req[r].error.status = req[r].outcomes[i].status
                    /\ req[r].result = NoResult

\* a 404 on the second attempt, with retries left, has ended the request
C2_Witness ==
    \E r \in Reqs :
        /\ req[r].retryCount = Num(MaxRetry)
        /\ req[r].pc = "thrown"
        /\ Len(req[r].outcomes) = 2
        /\ req[r].outcomes[2] = Responded(404)


\* the first k attempts received retryable statuses and attempt k a 2xx response
RetryableThenOk(q, k) ==
    /\ Len(q.outcomes) = k + 1
    /\ \A i \in 1..k : RetryableResponse(q.outcomes[i])
    /\ OkResponse(q.outcomes[k + 1])

\* response.status === 204 || content-length === '0'
EmptyResponse(response) ==
    response.status = 204 \/ response.contentLength = "0"

\* what a request returns for a 2xx response
BodyOf(response) ==
    IF EmptyResponse(response) THEN Undefined ELSE Json(response.body.text)

\* C3 as stated: k retryable statuses and then a 2xx response make the
\* request succeed after exactly k+1 attempts and k backoff waits, returning
\* the body of the 2xx response
C3_Original ==
    \A r \in Reqs : \A k \in 0..(MaxRetry + 1) :
        (RetryableThenOk(req[r], k) /\ Terminated(req[r])) =>
            /\ req[r].pc = "returned"
            /\ Len(req[r].attempts) = k + 1
            /\ Len(req[r].sleeps) = k
            /\ req[r].result = BodyOf(req[r].response)

\* C3 (amended): k retryable statuses and then a 2xx response give exactly
\* k+1 attempts and k backoff waits; the request returns the decoded body if
\* the body decodes, the empty result if the response is empty (204 or zero
\* content-length), and fails with the decode error only if the body does
\* not decode
C3_RetryThenSuccess ==
    \A r \in Reqs : \A k \in 0..(MaxRetry + 1) :
        RetryableThenOk(req[r], k) =>
            /\ Len(req[r].attempts) = k + 1
            /\ Len(req[r].sleeps) = k
            /\ req[r].pendingSleeps = 0
            /\ req[r].pc \in {"decode", "returned", "thrown"}
            /\ req[r].pc = "decode" => ~EmptyResponse(req[r].response)
            /\ req[r].pc = "returned" =>
                    /\ req[r].result = BodyOf(req[r].response)
                    /\ req[r].error = Null
            /\ req[r].pc = "thrown" =>
                    /\ ~EmptyResponse(req[r].response)
                    /\ ~req[r].response.body.valid
                    /\ req[r].error.name = "SyntaxError"

\* 503, 503, 200: the request returned the body of the 200 after two waits
C3_Witness ==
    \E r \in Reqs :
        /\ req[r].outcomes = <<Responded(503), Responded(503), Responded(200)>>
        /\ req[r].pc = "returned"
        /\ req[r].result = Json("b1")
        /\ Len(req[r].sleeps) = 2

\* C4: a jiraFetch request that ends on a non-2xx response raises a
\* JiraApiException whose kind is chosen by the status of that response
\* (401, 403, 404, 429, other) and whose status is that status; a 401 on the
\* first attempt is raised with no backoff wait
C4_ErrorClassified ==
    \A r \in Reqs :
        ( /\ req[r].family = "api"
          /\ req[r].pc = "thrown"
          /\ Len(req[r].outcomes) > 0
          /\ Last(req[r].outcomes).t = "response"
          /\ ~OkResponse(Last(req[r].outcomes)) ) =>
            LET status == Last(req[r].outcomes).status
            IN  /\ req[r].error.name = "JiraApiException"
                /\ req[r].error.status = status
                /\ req[r].error.kind =
                     CASE status = 401 -> "AuthenticationFailed"
                       [] status = 403 -> "Forbidden"
                       [] status = 404 -> "NotFound"
                       [] status = 429 -> "RateLimited"
                       [] OTHER -> "ApiError"
                /\ (status = 401 /\ Len(req[r].outcomes) = 1) =>
                        Len(req[r].sleeps) = 0

\* a 403 after one retried attempt raised the forbidden kind
C4_Witness ==
    \E r \in Reqs :
        /\ req[r].family = "api"
        /\ req[r].pc = "thrown"
        /\ Len(req[r].outcomes) = 2
        /\ Last(req[r].outcomes) = Responded(403)
        /\ req[r].error.kind = "Forbidden"

\* all r+1 attempts of a request with retry count r received retryable statuses
AllRetryable(q) ==
    /\ RetryCountNat(q)
    /\ Len(q.outcomes) = q.retryCount.v + 1
    /\ \A i \in 1..Len(q.outcomes) : RetryableResponse(q.outcomes[i])

\* C5 as stated: r+1 retryable statuses fail the request after exactly r+1
\* attempts and r waits with an error carrying the last status, and a 429
\* surfaces as the rate-limited kind
C5_Original ==
    \A r \in Reqs :
        AllRetryable(req[r]) =>
            /\ Len(req[r].attempts) = req[r].retryCount.v + 1
            /\ Len(req[r].sleeps) = req[r].retryCount.v
            /\ req[r].pc \in {"parseError", "thrown"}
            /\ req[r].pc = "thrown" =>
                    /\ req[r].error.name = "JiraApiException"
                    /\ req[r].error.status = Last(req[r].outcomes).status
                    /\ Last(req[r].outcomes).status = 429 =>
                            req[r].error.kind = "RateLimited"

\* C5 (amended): r+1 retryable statuses fail the request after exactly r+1
\* attempts and r waits with an error carrying the last status; a 429
\* surfaces as the rate-limited kind on jiraFetch and as the generic agile
\* API error on jiraAgileFetch
C5_ExhaustedRetries ==
    \A r \in Reqs :
        AllRetryable(req[r]) =>
            /\ Len(req[r].attempts) = req[r].retryCount.v + 1
            /\ Len(req[r].sleeps) = req[r].retryCount.v
            /\ req[r].pendingSleeps = 0
            /\ req[r].pc \in {"parseError", "thrown"}
            /\ req[r].pc = "thrown" =>
                    /\ req[r].error.name = "JiraApiException"
                    /\ req[r].error.status = Last(req[r].outcomes).status
                    /\ req[r].result = NoResult
                    /\ Last(req[r].outcomes).status = 429 =>
                            req[r].error.kind =
                                IF req[r].family = "api" THEN "RateLimited"
                                ELSE "AgileApiError"

\* MaxRetry+1 retryable statuses, the last a 429, on the agile family
C5_Witness ==
    \E r \in Reqs :
        /\ AllRetryable(req[r])
        /\ req[r].retryCount = Num(MaxRetry)
        /\ req[r].family = "agile"
        /\ req[r].pc = "thrown"
        /\ Last(req[r].outcomes) = Responded(429)
        /\ req[r].error.status = 429


\* attempt n (outcome i = n + 1) was followed by a backoff wait and, once the
\* wait is over, by attempt n + 1
RetriedAfter(q, i) ==
    /\ Len(q.sleeps) >= i
    /\ \/ Len(q.attempts) >= i + 1
       \/ (q.pc = "sleep" /\ Len(q.outcomes) = i /\ q.pendingSleeps = 1)

\* C6 as stated: whatever its kind, an error thrown by fetch on attempt n is
\* retried when n < retryCount (a backoff wait, then attempt n+1) and reaches
\* the caller only when thrown on attempt n = retryCount
C6_Original ==
    \A r \in Reqs : \A i \in 1..Len(req[r].outcomes) :
        req[r].outcomes[i].t \in ThrownNames =>
            /\ JsLt(i - 1, req[r].retryCount) => RetriedAfter(req[r], i)
            /\ (req[r].pc = "thrown" /\ i = Len(req[r].outcomes)) =>
                    req[r].retryCount = Num(i - 1)

\* C6 (amended): a TypeError thrown by fetch on attempt n is retried whenever
\* n < retryCount (a backoff wait, then attempt n+1) and reaches the caller,
\* unchanged, only when thrown on attempt n = retryCount; a thrown error of
\* any other class that is not the abort of the attempt's timer reaches the
\* caller at once, unchanged, with no wait and no further attempt
C6_NetworkErrorRetried ==
    \A r \in Reqs : \A i \in 1..Len(req[r].outcomes) :
        /\ req[r].outcomes[i].t = "TypeError" =>
            /\ JsLt(i - 1, req[r].retryCount) => RetriedAfter(req[r], i)
            /\ (req[r].pc = "thrown" /\ i = Len(req[r].outcomes)) =>
                    /\ req[r].retryCount = Num(i - 1)
                    /\ req[r].error = PlainError("TypeError", "fetch failed")
                    /\ Len(req[r].sleeps) = i - 1
        /\ req[r].outcomes[i].t \in ThrownNames \ {"TypeError"} =>
            /\ i = Len(req[r].outcomes)
            /\ req[r].pc = "thrown"
            /\ req[r].error = PlainError(req[r].outcomes[i].t, "fetch failed")
            /\ Len(req[r].attempts) = i
            /\ Len(req[r].sleeps) = i - 1
            /\ req[r].pendingSleeps = 0

\* every attempt of a request with MaxRetry retries met a network failure
C6_Witness ==
    \E r \in Reqs :
        /\ req[r].retryCount = Num(MaxRetry)
        /\ Len(req[r].outcomes) = MaxRetry + 1
        /\ \A i \in 1..(MaxRetry + 1) : req[r].outcomes[i].t = "TypeError"
        /\ req[r].pc = "thrown"
        /\ req[r].error.name = "TypeError"
        /\ Len(req[r].sleeps) = MaxRetry

\* C7: every attempt has its own abort timer, set to the configured timeout;
\* an attempt aborted by its timer on index n < retryCount is followed by a
\* backoff wait and attempt n+1, and an abort on index retryCount fails the
\* request with the timeout error (status 0) after exactly retryCount+1
\* attempts and retryCount waits
C7_TimeoutRetried ==
    \A r \in Reqs :
        /\ Len(req[r].timers) = Len(req[r].attempts)
        /\ \A i \in 1..Len(req[r].timers) : req[r].timers[i].ms = req[r].timeout
        /\ \A i \in 1..Len(req[r].outcomes) :
              req[r].outcomes[i].t = "AbortError" =>
                /\ req[r].timers[i].state = "fired"
                /\ JsLt(i - 1, req[r].retryCount) => RetriedAfter(req[r], i)
                /\ req[r].retryCount = Num(i - 1) =>
                        /\ req[r].pc = "thrown"
                        /\ req[r].error = TimeoutError(req[r].timeout)
                        /\ req[r].error.status = 0
                        /\ Len(req[r].attempts) = i
                        /\ Len(req[r].sleeps) = i - 1
                        /\ req[r].pendingSleeps = 0

\* every attempt of a request with MaxRetry retries was aborted by its timer
C7_Witness ==
    \E r \in Reqs :
        /\ req[r].retryCount = Num(MaxRetry)
        /\ Len(req[r].outcomes) = MaxRetry + 1
        /\ \A i \in 1..(MaxRetry + 1) : req[r].outcomes[i].t = "AbortError"
        /\ req[r].pc = "thrown"
        /\ req[r].error.status = 0


Min(a, b) == IF a < b THEN a ELSE b

\* min(d * 2^n + extra, 30000) over the integers, for d >= 0 and n >= 0
\* (d * 2^n is at least 2^15 > 30000 when d > 0 and n >= 15)
CappedDelay(d, n, extra) ==
    IF d = 0 THEN Min(extra, MaxBackoff)
    ELSE IF n >= 15 THEN MaxBackoff
    ELSE Min(d * 2^n + extra, MaxBackoff)

\* C8: for every base delay d >= 0 and attempt index n >= 0 the delay of
\* calculateBackoff is a number in [min(d*2^n, 30000), min(d*2^n + d, 30000)]
C8_BackoffInRange ==
    bk.done =>
        /\ bk.delay.k = "num"
        /\ bk.delay.v >= CappedDelay(bk.baseDelay, bk.attempt, 0)
        /\ bk.delay.v <= CappedDelay(bk.baseDelay, bk.attempt, bk.baseDelay)
        /\ bk.delay.v <= MaxBackoff

\* the range of C8 holds whenever d > 0 or 2^n is a finite double
BackoffInRangeBelowOverflow ==
    (bk.done /\ (bk.baseDelay > 0 \/ bk.attempt < DoubleMaxExp)) =>
        /\ bk.delay.k = "num"
        /\ bk.delay.v >= CappedDelay(bk.baseDelay, bk.attempt, 0)
        /\ bk.delay.v <= CappedDelay(bk.baseDelay, bk.attempt, bk.baseDelay)

\* C9: a request returns a result only when its last attempt received a 2xx
\* response; every other request that ends raises an error, and a request
\* holds a result only once it has returned
C9_ResultOnlyOnSuccess ==
    \A r \in Reqs :
        /\ req[r].pc = "returned" =>
                /\ Len(req[r].outcomes) > 0
                /\ OkResponse(Last(req[r].outcomes))
                /\ req[r].result = BodyOf(req[r].response)
                /\ req[r].error = Null
        /\ req[r].pc = "thrown" =>
                /\ req[r].error # Null
                /\ req[r].result = NoResult
        /\ ( /\ Terminated(req[r])
             /\ \/ Len(req[r].outcomes) = 0
                \/ ~OkResponse(Last(req[r].outcomes)) ) => req[r].pc = "thrown"
        /\ req[r].pc # "returned" => req[r].result = NoResult

\* a request returned the 200 body after a network failure and a timeout
C9_Witness ==
    \E r \in Reqs :
        /\ req[r].outcomes =
               <<Threw("TypeError"), Threw("AbortError"), Responded(200)>>
        /\ req[r].pc = "returned"
        /\ req[r].result = Json("b2")

\* C10: the attempts of one request never overlap: at most one fetch is in
\* flight, an attempt starts only after the one before it has ended and the
\* backoff wait after that has completed, and no wait runs during an attempt
C10_Sequential ==
    \A r \in Reqs :
        LET q == req[r]
            completedSleeps == Len(q.sleeps) - q.pendingSleeps
        IN  /\ q.inflight \in {0, 1}
            /\ q.inflight = 1 <=> q.pc = "fetch"
            /\ Len(q.attempts) = Len(q.outcomes) + q.inflight
            /\ q.pendingSleeps \in {0, 1}
            /\ q.pendingSleeps = 1 <=> q.pc = "sleep"
            /\ Len(q.sleeps) <= Len(q.outcomes)
            /\ Len(q.attempts) > 0 => Len(q.attempts) = completedSleeps + 1
            /\ q.inflight = 1 => q.pendingSleeps = 0

\* the third attempt of a request is in flight, after two completed waits
C10_Witness ==
    \E r \in Reqs :
        /\ req[r].pc = "fetch"
        /\ req[r].attempts = <<0, 1, 2>>
        /\ Len(req[r].outcomes) = 2
        /\ Len(req[r].sleeps) = 2
        /\ req[r].pendingSleeps = 0

-----------------------------------------------------------------------------
(* C11: empty-body handling *)

\* the attempt that ended last received a 2xx response
LastOk(q) == Len(q.outcomes) > 0 /\ OkResponse(Last(q.outcomes))

\* C11 as stated: a 2xx response with status 204 or a zero content-length
\* makes the request return the empty result without a call of
\* response.json(); every other 2xx response makes it return the decoded body
C11_Original ==
    \A r \in Reqs :
        (LastOk(req[r]) /\ Terminated(req[r])) =>
            /\ req[r].pc = "returned"
            /\ EmptyResponse(req[r].response) =>
                    req[r].result = Undefined /\ req[r].decodes = 0
            /\ ~EmptyResponse(req[r].response) =>
                    req[r].result = Json(req[r].response.body.text)

\* C11 (amended): a 2xx response with status 204 or a zero content-length
\* makes the request return the empty result without a call of
\* response.json(); every other 2xx response is decoded once, and the request
\* returns the decoded body, or fails with the decode error when the body does
\* not decode
C11_EmptyBody ==
    \A r \in Reqs :
        LastOk(req[r]) =>
            /\ EmptyResponse(req[r].response) =>
                    /\ req[r].pc = "returned"
                    /\ req[r].result = Undefined
                    /\ req[r].decodes = 0
            /\ ~EmptyResponse(req[r].response) =>
                    /\ req[r].decodes = 1
                    /\ req[r].pc \in {"decode", "returned", "thrown"}
                    /\ req[r].pc = "returned" =>
                            /\ req[r].response.body.valid
                            /\ req[r].result = Json(req[r].response.body.text)
                    /\ req[r].pc = "thrown" =>
                            /\ ~req[r].response.body.valid
                            /\ req[r].error.name = "SyntaxError"

\* an agile request answered 200 with content-length 0 returned the empty
\* result without decoding
C11_Witness ==
    \E r \in Reqs :
        /\ req[r].family = "agile"
        /\ req[r].pc = "returned"
        /\ req[r].response.status = 200
        /\ req[r].response.contentLength = "0"
        /\ req[r].result = Undefined
        /\ req[r].decodes = 0

-----------------------------------------------------------------------------
(* C12 .. C16: the cache *)

\* the effective time-to-live, in seconds, of the last write of a key
TtlOf(w) == IF w.ttl = NoTtl THEN cachedConfig.cacheTtl.v ELSE w.ttl.v

\* the expiry instant T + t seconds of the last write of a key
ExpiryOf(w) == w.at + 1000 * TtlOf(w)

\* the operation just performed read the key: a get, or the get of withCache
ReadJustNow == obs.last.op \in {"get", "call"}

\* C12: for an entry stored by set(k, v, t) at instant T and not touched by a
\* later set, delete or clear, every get(k) up to and including the instant
\* T + t seconds returns v, and every get(k) strictly after it reports absent
C12_VisibleUntilExpiry ==
    ReadJustNow =>
        LET w == obs.written[obs.last.key]
        IN  w.has =>
                /\ now <= ExpiryOf(w) => obs.last.value = w.value
                /\ now > ExpiryOf(w) => obs.last.value = Undefined

\* an entry stored at 0 for one second was read at 1000 and returned; read at
\* 1200 it would be absent
C12_Witness ==
    /\ obs.last.op = "get"
    /\ obs.written[obs.last.key] = Write(Json("b1"), 0, Num(1))
    /\ now = 1000
    /\ obs.last.value = Json("b1")
    /\ cacheGet(store, obs.last.key, 1200).value = Undefined

\* a step of withCache was just performed: the call, or its completion
WithCacheJustNow == obs.last.op \in {"call", "resolve", "reject"}

\* C13: withCache invokes the producer exactly once when the key is a miss
\* (absent or expired) and zero times when an unexpired entry for the key is
\* stored, whatever the stored value (falsy or undefined included)
C13_ProducerCalls ==
    /\ WithCacheJustNow =>
            obs.last.frame.calls = IF obs.last.frame.hit THEN 0 ELSE 1
    /\ \A c \in Callers :
            wc[c].pc = "awaiting" => wc[c].calls = IF wc[c].hit THEN 0 ELSE 1

\* the producer is invoked once on a miss and not at all on an unexpired
\* entry whose value is not undefined; an unexpired entry holding undefined
\* makes withCache invoke the producer again
ProducerCallsUnlessUndefined ==
    WithCacheJustNow =>
        LET f == obs.last.frame
        IN  /\ ~f.hit => f.calls = 1
            /\ (f.hit /\ f.cached # Undefined) => f.calls = 0
            /\ (f.hit /\ f.cached = Undefined) => f.calls = 1

\* C14: after the entry of a key has expired, the next withCache on the key
\* invokes the producer once and stores its result with an expiry counted
\* from the instant of the store; reads within the new time-to-live return
\* the new value
C14_RepopulatedAfterExpiry ==
    (obs.last.op = "resolve" /\ obs.last.frame.expired) =>
        LET f == obs.last.frame
            expiry == now + 1000 * TtlOf(obs.written[f.key])
        IN  /\ f.calls = 1
            /\ f.pc = "returned"
            /\ obs.last.value = f.produced
            /\ store[f.key] = CacheEntry(f.produced, Num(expiry))
            /\ \A t \in Instants :
                    (now <= t /\ t <= expiry) =>
                        cacheGet(store, f.key, t).value = f.produced

\* an entry stored for one second at 0 had expired when withCache was called;
\* its producer resolved at 2200 and the new entry expires at 3200
C14_Witness ==
    /\ obs.last.op = "resolve"
    /\ obs.last.frame.expired
    /\ obs.last.frame.ttl = Num(1)
    /\ obs.last.frame.produced = JsZero
    /\ now = 2200
    /\ store[obs.last.key] = CacheEntry(JsZero, Num(3200))

\* C15: two withCache calls on the same missing key that interleave at the
\* await of the producer both invoke their producer and both write; each
\* returns the result of its own producer, and the entry in the cache after a
\* completion is the one of the producer that completed last
C15_LastWriterWins ==
    /\ \A c \in Callers :
            (wc[c].pc = "awaiting" /\ wc[c].raced) => wc[c].calls = 1
    /\ (obs.last.op = "resolve" /\ obs.last.frame.raced) =>
            LET f == obs.last.frame
            IN  /\ f.calls = 1
                /\ obs.last.value = f.produced
                /\ store[f.key].has
                /\ store[f.key].value = f.produced
                /\ obs.written[f.key] = Write(f.produced, now, f.ttl)

\* both producers were invoked; the first to complete returned b1, the second
\* returned its own 0, and the entry left is the second's
C15_Witness ==
    /\ obs.last.op = "resolve"
    /\ obs.last.frame.raced
    /\ obs.last.frame.calls = 1
    /\ obs.last.frame.partner = Json("b1")
    /\ obs.last.value = JsZero
    /\ store[obs.last.key].value = JsZero
    /\ \A c \in Callers : wc[c].pc = "idle"

\* C16: delete(k) makes the next get(k) report absent and leaves the entry of
\* every other key as it was; clear() makes get report absent for every key;
\* deleting a key that has no entry changes nothing
C16_DeleteClearFrame ==
    [][ /\ obs'.last.op = "delete" =>
            /\ cacheGet(store', obs'.last.key, now').value = Undefined
            /\ \A k \in Keys \ {obs'.last.key} : store'[k] = store[k]
            /\ ~store[obs'.last.key].has => store' = store
        /\ obs'.last.op = "clear" =>
            \A k \in Keys : cacheGet(store', k, now').value = Undefined
      ]_vars

\* the entry of k1 was deleted and the entry of k2 is still there
C16_Witness ==
    /\ obs.last.op = "delete"
    /\ obs.last.key = "k1"
    /\ obs.last.value = Json("b1")
    /\ ~store["k1"].has
    /\ Live(store["k2"], now)

-----------------------------------------------------------------------------
(* C17 .. C19: the configuration *)

\* base URL, username and password are all set and not empty
RequiredPresent(e) ==
    ~Falsy(e.JIRA_BASE_URL) /\ ~Falsy(e.JIRA_USERNAME) /\ ~Falsy(e.JIRA_PASSWORD)

\* the first required variable that is absent or empty
FirstMissing(e) ==
    IF Falsy(e.JIRA_BASE_URL) THEN "JIRA_BASE_URL"
    ELSE IF Falsy(e.JIRA_USERNAME) THEN "JIRA_USERNAME"
    ELSE "JIRA_PASSWORD"

\* C17: after the first successful getConfig, every later getConfig returns
\* the same configuration whatever the environment has become, until
\* clearConfigCache is called; the first getConfig after clearConfigCache
\* parses the environment as it is at that moment
C17_CachedUntilReset ==
    cfgObs.op = "getConfig" =>
        /\ cfgObs.later => (cfgObs.ok /\ cfgObs.config = cfgObs.first)
        /\ cfgObs.afterReset =>
                /\ cfgObs.ok = RequiredPresent(env)
                /\ cfgObs.ok => cfgObs.config = BuildConfig(env)

\* a later getConfig returned the configuration first loaded although the
\* environment no longer gives it
C17_Witness ==
    /\ cfgObs.op = "getConfig"
    /\ cfgObs.later
    /\ cfgObs.config = cfgObs.first
    /\ RequiredPresent(env)
    /\ cfgObs.config # BuildConfig(env)

\* C18 as stated: getConfig fails, naming the missing variable, whenever base
\* URL, username or password is absent or empty in the environment, and
\* succeeds whenever all three are present
C18_Original ==
    cfgObs.op = "getConfig" =>
        /\ cfgObs.ok = RequiredPresent(env)
        /\ ~cfgObs.ok => cfgObs.error = MissingError(FirstMissing(env))

\* C18 (amended): a getConfig that is not preceded by a successful one since
\* the start or the last reset fails, with an Error naming the first missing
\* variable, exactly when base URL, username or password is absent or empty,
\* whatever the optional settings; a getConfig after a successful one
\* succeeds whatever the environment
C18_RequiredSettings ==
    cfgObs.op = "getConfig" =>
        /\ ~cfgObs.later =>
                /\ cfgObs.ok = RequiredPresent(env)
                /\ ~cfgObs.ok =>
                        /\ cfgObs.error = MissingError(FirstMissing(env))
                        /\ cachedConfig = Null
        /\ cfgObs.later => cfgObs.ok

\* getConfig failed on an empty password, with a retry count that is no
\* number
C18_Witness ==
    /\ cfgObs.op = "getConfig"
    /\ ~cfgObs.ok
    /\ cfgObs.error = MissingError("JIRA_PASSWORD")
    /\ env.JIRA_PASSWORD = Str(<<>>)
    /\ env.JIRA_RETRY_COUNT = Str(<<"x">>)

\* the filter set a filter string stands for: its comma-separated entries,
\* trimmed and upper-cased, without the empty ones
ParsedFilterSet(x) ==
    LET parts == split(x.s, <<>>)
    IN  {toUpperCase(trim(parts[i])) : i \in 1..Len(parts)} \ {<<>>}

\* C19 as stated: isProjectAllowed is true for every key when no filter is
\* configured, and otherwise is exactly the membership of the upper-cased key
\* in the parsed filter set, for every filter string
C19_Original ==
    pf.done =>
        pf.allowed = IF Falsy(pf.filter) THEN TRUE
                     ELSE toUpperCase(pf.key) \in ParsedFilterSet(pf.filter)

\* C19 (amended): isProjectAllowed is true for every key when no filter is
\* configured or the filter string has no entry that is not empty, and
\* otherwise is exactly the membership of the upper-cased key in the parsed
\* filter set
C19_ProjectFilter ==
    pf.done =>
        pf.allowed = IF Falsy(pf.filter) \/ ParsedFilterSet(pf.filter) = {}
                     THEN TRUE
                     ELSE toUpperCase(pf.key) \in ParsedFilterSet(pf.filter)

\* the key a is allowed by the filter "a, B": the entries stand for A and B
C19_Witness ==
    /\ pf.done
    /\ pf.filter = Str(<<"a", ",", " ", "B">>)
    /\ pf.key = <<"a">>
    /\ pf.allowed

-----------------------------------------------------------------------------
(* C20: the issue transformer *)

\* C20: a transformed link takes its direction from the nested issue that is
\* there: with only the outward issue, direction "outward", the outward name
\* of the link type and the outward issue; with the inward issue, direction
\* "inward", the inward name and the inward issue
C20_LinkDirection ==
    (tr.done /\ tr.out.t = "issue" /\ tr.issue.issuelinks.def) =>
        /\ tr.out.links.def
        /\ Len(tr.out.links.list) = Len(tr.issue.issuelinks.list)
        /\ \A i \in 1..Len(tr.issue.issuelinks.list) :
                LET link == tr.issue.issuelinks.list[i]
                    out == tr.out.links.list[i]
                IN  /\ (~link.inwardIssue.def /\ link.outwardIssue.def) =>
                            out = SimplifiedLink(link.id, link.type.outward,
                                                 "outward", link.outwardIssue)
                    /\ link.inwardIssue.def =>
                            out = SimplifiedLink(link.id, link.type.inward,
                                                 "inward", link.inwardIssue)

\* a link with only the outward issue A-2 and a link with both issues were
\* transformed: the first is outward to A-2, the second inward to A-1
C20_Witness ==
    /\ tr.done
    /\ tr.out.t = "issue"
    /\ Len(tr.issue.issuelinks.list) = 2
    /\ ~tr.issue.issuelinks.list[1].inwardIssue.def
    /\ tr.issue.issuelinks.list[1].outwardIssue.key = "A-2"
    /\ tr.issue.issuelinks.list[2].inwardIssue.key = "A-1"
    /\ tr.issue.issuelinks.list[2].outwardIssue.key = "A-2"
    /\ tr.out.links.list[1].direction = "outward"
    /\ tr.out.links.list[1].type = "blocks"
    /\ tr.out.links.list[1].key = "A-2"
    /\ tr.out.links.list[2].direction = "inward"
    /\ tr.out.links.list[2].type = "is blocked by"
    /\ tr.out.links.list[2].key = "A-1"


\* C21: the simplified issue has no assignee exactly when the raw issue has
\* none (the field is not there or is null), and its labels, components and
\* fixVersions are lists: the raw list when there is one, the names of its
\* elements for components and fixVersions, the empty list otherwise
C21_AssigneeAndLists ==
    (tr.done /\ tr.out.t = "issue") =>
        /\ ~tr.out.assignee.def <=> tr.issue.assignee.is # "user"
        /\ tr.issue.assignee.is = "user" =>
                tr.out.assignee = Str(tr.issue.assignee.displayName)
        /\ tr.out.labels.def
        /\ tr.out.components.def
        /\ tr.out.fixVersions.def
        /\ tr.out.labels.list =
                (IF tr.issue.labels.def THEN tr.issue.labels.list ELSE <<>>)
        /\ ~tr.issue.components.def => tr.out.components.list = <<>>
        /\ ~tr.issue.fixVersions.def => tr.out.fixVersions.list = <<>>
        /\ Len(tr.out.components.list) = Len(tr.issue.components.list)
        /\ Len(tr.out.fixVersions.list) = Len(tr.issue.fixVersions.list)

\* an issue whose assignee is null, with no labels and no fixVersions but two
\* components, was transformed: no assignee, empty labels and fixVersions,
\* the two component names
C21_Witness ==
    /\ tr.done
    /\ tr.out.t = "issue"
    /\ tr.issue.assignee = NullUser
    /\ ~tr.issue.labels.def
    /\ ~tr.issue.fixVersions.def
    /\ tr.issue.components.def
    /\ tr.out.assignee = Absent
    /\ tr.out.labels = List(<<>>)
    /\ tr.out.fixVersions = List(<<>>)
    /\ tr.out.components = List(<<"n1", "n2">>)

\* the entries of the raw fields that belong in customFields
IsCustom(e) ==
    /\ Len(e.key) >= 2
    /\ e.key[1] = "customfield"
    /\ e.key[2] = "_"
    /\ e.value \notin {JsNull, Undefined}

\* C22: customFields holds exactly the top-level raw fields whose key starts
\* with customfield_ and whose value is neither null nor undefined, each
\* with its raw value, and nothing else
C22_CustomFields ==
    (tr.done /\ tr.out.t = "issue") =>
        LET raw == tr.issue.entries
            out == tr.out.customFields
        IN  /\ \A i \in 1..Len(raw) :
                    IsCustom(raw[i]) <=> \E j \in 1..Len(out) : out[j] = raw[i]
            /\ \A j \in 1..Len(out) : \E i \in 1..Len(raw) : out[j] = raw[i]
            /\ \A j, k \in 1..Len(out) : j # k => out[j].key # out[k].key

\* an issue with customfield_10001 = 0 and customfield_10002 = null was
\* transformed: customFields holds customfield_10001 = 0 only
C22_Witness ==
    /\ tr.done
    /\ tr.out.t = "issue"
    /\ tr.issue.entries =
            << [key |-> <<"customfield", "_", "10001">>, value |-> JsZero],
               [key |-> <<"customfield", "_", "10002">>, value |-> JsNull] >>
    /\ tr.out.customFields =
            << [key |-> <<"customfield", "_", "10001">>, value |-> JsZero] >>


\* C23: the search-result transform keeps total, startAt and maxResults,
\* returns as many issues as the raw result in the same order, the i-th being
\* the transform of the i-th raw issue, and leaves the raw result as it was
C23_SearchResult ==
    [][(~sr.done /\ sr'.done /\ sr'.out.t = "result") =>
            /\ sr'.result = sr.result
            /\ sr'.out.total = sr.result.total
            /\ sr'.out.startAt = sr.result.startAt
            /\ sr'.out.maxResults = sr.result.maxResults
            /\ Len(sr'.out.issues) = Len(sr.result.issues)
            /\ \A i \in 1..Len(sr.result.issues) :
                    sr'.out.issues[i] = toSimplifiedIssue(sr.result.issues[i])
      ]_vars

\* a result with total 50, startAt 1, maxResults 1 and two different issues,
\* the first with an assignee and the second with a link, was transformed
C23_Witness ==
    /\ sr.done
    /\ sr.out.t = "result"
    /\ sr.result.total = 50 /\ sr.out.total = 50
    /\ sr.result.startAt = 1 /\ sr.out.startAt = 1
    /\ sr.result.maxResults = 1 /\ sr.out.maxResults = 1
    /\ Len(sr.result.issues) = 2
    /\ sr.result.issues[1].assignee = User(<<"Ann">>)
    /\ sr.result.issues[2].issuelinks.def
    /\ Len(sr.out.issues) = 2
    /\ sr.out.issues[1].assignee = Str(<<"Ann">>)
    /\ sr.out.issues[2].links.def
    /\ sr.out.issues[2].links.list[1].key = "A-2"


\* the lines of a text
Lines(text) == splitOn(text, "\n", <<>>)

MultiLineObject ==
    ToonObject(<<"a", "b">>,
               <<ToonNumber(<<"1">>), ToonString(<<"line1", "\n", "line2">>)>>)

\* C24: toToon of {a: 1, b: "line1\nline2"} has the line "a: 1" and, after
\* it, line1 and line2 each on a line of its own, indented one level deeper
\* than the key b
C24_MultiLineBlock ==
    (tt.done /\ tt.data = MultiLineObject) =>
        LET lines == Lines(tt.out)
        IN  /\ lines[1] = <<"a", ":", " ", "1">>
            /\ \E j, k \in 2..Len(lines) :
                    /\ j < k
                    /\ lines[j] = repeat(1) \o <<"line1">>
                    /\ lines[k] = repeat(1) \o <<"line2">>

\* what toToon gives for that object: line1 follows "b: |", a backslash and
\* an n on the line of the key, and line2 is indented two levels
ToonMultiLineText ==
    (tt.done /\ tt.data = MultiLineObject) =>
        Lines(tt.out) =
            << <<"a", ":", " ", "1">>,
               <<"b", ":", " ", "|", "\\", "n", " ", " ", " ", " ", "line1">>,
               <<" ", " ", " ", " ", "line2">> >>

IsScalar(value) == value.t \in {"string", "number", "boolean"}

\* the text is one line in brackets
Inline(text) ==
    /\ Len(text) >= 2
    /\ Head(text) = "["
    /\ text[Len(text)] = "]"
    /\ \A i \in 1..Len(text) : text[i] # "\n"

\* the lines of the text that are a "- " item at the indentation
DashLines(text, indent) ==
    { i \in 1..Len(Lines(text)) :
        LET line == Lines(text)[i]
            mark == repeat(indent) \o <<"-", " ">>
        IN  Len(line) >= Len(mark) /\ SubSeq(line, 1, Len(mark)) = mark }

\* C25: a list is one inline bracketed line exactly when all its elements are
\* strings, numbers or booleans, and otherwise has a "- " line for each
\* element; as the member of an object, a list with an element that is not a
\* scalar starts on the line below its key, its "- " lines one level deeper
C25_ListRendering ==
    /\ (tt.done /\ tt.data.t = "array") =>
            LET items == tt.data.items
            IN  IF \A i \in 1..Len(items) : IsScalar(items[i])
                THEN Inline(tt.out)
                ELSE /\ ~Inline(tt.out)
                     /\ Cardinality(DashLines(tt.out, 0)) = Len(items)
    /\ (/\ tt.done
        /\ tt.data.t = "object"
        /\ tt.data.s = <<"a">>
        /\ tt.data.items[1].t = "array"
        /\ \E i \in 1..Len(tt.data.items[1].items) :
                ~IsScalar(tt.data.items[1].items[i])) =>
            /\ Lines(tt.out)[1] = <<"a", ":">>
            /\ Cardinality(DashLines(tt.out, 1)) = Len(tt.data.items[1].items)

\* what toToon gives for a list: brackets exactly when the list is empty or
\* all its elements are strings or numbers, and otherwise a "- " line for
\* each element
ToonListText ==
    (tt.done /\ tt.data.t = "array") =>
        LET items == tt.data.items
        IN  IF \A i \in 1..Len(items) : items[i].t \in {"string", "number"}
            THEN Head(tt.out) = "[" /\ tt.out[Len(tt.out)] = "]"
            ELSE /\ Head(tt.out) = "-"
                 /\ Cardinality(DashLines(tt.out, 0)) = Len(items)


\* the timers of frame q that are armed
Armed(q) == {i \in 1..Len(q.timers) : q.timers[i].state = "armed"}

\* C26: the timer of an attempt is disarmed when the attempt ends: after
\* every step the only timer of a request that can be armed is that of its
\* current attempt, and only while the fetch of that attempt is pending; so a
\* timer that fires is the timer of the pending fetch, never one of an
\* earlier attempt, of a backoff wait or of a request that has resolved
C26_TimerDisarmed ==
    [][\A r \in Reqs :
            /\ Armed(req'[r]) \subseteq {Len(req'[r].timers)}
            /\ Armed(req'[r]) # {} => req'[r].pc = "fetch"
            /\ \A i \in 1..Len(req[r].timers) :
                    (/\ i <= Len(req'[r].timers)
                     /\ req[r].timers[i].state = "armed"
                     /\ req'[r].timers[i].state = "fired") =>
                        /\ req[r].pc = "fetch"
                        /\ i = Len(req[r].timers)
                        /\ Len(req[r].attempts) = i
      ]_vars

\* a request has resolved after three attempts: the timer of the first fired,
\* those of the second and third were disarmed, the second after an error
\* response and a backoff wait
C26_Witness ==
    /\ req[1].pc = "returned"
    /\ Len(req[1].timers) = 3
    /\ req[1].timers[1].state = "fired"
    /\ req[1].timers[2].state = "cleared"
    /\ req[1].timers[3].state = "cleared"
    /\ Len(req[1].sleeps) = 2
    /\ req[1].outcomes[2] = Responded(503)



\* C27: started with the same configuration and fed the same outcomes, a
\* jiraFetch and a jiraAgileFetch are at the same point after every step,
\* with the same attempts, timers and backoff waits and the same use of the
\* agent; both return the same value or both throw, an error of the same
\* class with the same status; their URLs differ in the path only
C27_SameTransport ==
    LET a == req[1]
        g == req[2]
    IN  (a.family = "api" /\ g.family = "agile") =>
            /\ a.pc = g.pc
            /\ a.attempt = g.attempt
            /\ a.attempts = g.attempts
            /\ a.outcomes = g.outcomes
            /\ a.timers = g.timers
            /\ a.sleeps = g.sleeps
            /\ a.pendingSleeps = g.pendingSleeps
            /\ a.agent = g.agent
            /\ a.url # g.url
            /\ SubSeq(a.url, 1, 4) = SubSeq(g.url, 1, 4)
            /\ a.pc = "returned" => a.result = g.result
            /\ a.pc = "thrown" =>
                    /\ a.error.name = g.error.name
                    /\ a.error.name = "JiraApiException" =>
                            a.error.status = g.error.status

\* both requests have failed on a third 429 after two backoff waits, with
\* errors that differ in all but the status
C27_Witness ==
    /\ req[1].family = "api" /\ req[2].family = "agile"
    /\ req[1].pc = "thrown" /\ req[2].pc = "thrown"
    /\ Len(req[1].attempts) = 3 /\ Len(req[2].attempts) = 3
    /\ Len(req[1].sleeps) = 2 /\ Len(req[2].sleeps) = 2
    /\ req[1].error.name = "JiraApiException"
    /\ req[2].error.name = "JiraApiException"
    /\ req[1].error.status = 429 /\ req[2].error.status = 429
    /\ req[1].error.kind # req[2].error.kind


\* C28: a get(k) that finds an entry whose expiry has passed removes it and
\* nothing else, so that stats no longer lists k and counts one entry less,
\* and reports absent; a get that finds an unexpired entry or none leaves
\* the store as it was
C28_GetEvictsExpired ==
    [][obs'.last.op = "get" =>
            LET k == obs'.last.key
                found == store[k]
            IN  IF found.has /\ found.expiresAt.k = "num"
                             /\ now > found.expiresAt.v
                THEN /\ obs'.last.value = Undefined
                     /\ k \notin cacheStats(store').keys
                     /\ cacheStats(store').keys = cacheStats(store).keys \ {k}
                     /\ cacheStats(store').size = cacheStats(store).size - 1
                     /\ \A o \in Keys \ {k} : store'[o] = store[o]
                ELSE store' = store
      ]_vars

\* the entry of k1, stored at 0 for one second, was read at 1200: it is gone
\* from the store and k2 is the only key left
C28_Witness ==
    /\ obs.last = Op("get", "k1", Undefined, IdleCaller)
    /\ obs.written["k1"] = Write(Json("b1"), 0, Num(1))
    /\ now = 1200
    /\ cacheStats(store) = [size |-> 1, keys |-> {"k2"}]


Starts(r) == req[r].pc = "idle" /\ req'[r].pc # "idle"

\* C29: however requests interleave, at most one agent is ever constructed,
\* and only in the start of a request that runs with TLS verification off
\* against an https URL; a request with verification on neither constructs
\* nor attaches the agent
C29_AgentOnce ==
    [][/\ httpsAgent'.made <= 1
       /\ httpsAgent' # httpsAgent =>
            \E r \in Reqs :
                /\ Starts(r)
                /\ ~req'[r].sslVerify
                /\ IsHttps(req'[r].url)
                /\ req'[r].agent = "attached"
       /\ \A r \in Reqs :
            (Starts(r) /\ req'[r].sslVerify) =>
                /\ req'[r].agent = "none"
                /\ httpsAgent' = httpsAgent
       /\ \A r \in Reqs :
            (Starts(r) /\ ~req'[r].sslVerify /\ IsHttps(req'[r].url)) =>
                /\ req'[r].agent = "attached"
                /\ httpsAgent'.made = 1
      ]_vars

\* two requests without verification against https are under way together,
\* one of each family, and one agent has been constructed
C29_Witness ==
    /\ httpsAgent.made = 1
    /\ ~httpsAgent.rejectUnauthorized
    /\ req[1].pc = "fetch" /\ req[1].family = "api"
    /\ req[2].pc = "fetch" /\ req[2].family = "agile"
    /\ req[1].agent = "attached"
    /\ req[2].agent = "attached"


\* C31: a request whose retry count is a number r >= 0 has made at least one
\* attempt and never throws the error that follows the loop; a request that
\* throws that error has a retry count that is negative or not a number and
\* has made no attempt and no backoff wait, and such a request throws it
C31_FallbackOnlyWithoutLoop ==
    \A r \in Reqs :
        LET q == req[r]
        IN  q.pc # "idle" =>
                /\ RetryCountNat(q) =>
                        /\ Len(q.attempts) >= 1
                        /\ q.error # FallbackError
                /\ q.error = FallbackError =>
                        /\ ~RetryCountNat(q)
                        /\ q.pc = "thrown"
                        /\ q.attempts = <<>>
                        /\ q.sleeps = <<>>
                        /\ q.timers = <<>>
                /\ ~RetryCountNat(q) =>
                        q.pc = "thrown" /\ q.error = FallbackError

\* a request whose retry count is not a number has thrown the error that
\* follows the loop without an attempt
C31_Witness ==
    /\ req[1].retryCount = NaN
    /\ req[1].pc = "thrown"
    /\ req[1].error = FallbackError
    /\ req[1].attempts = <<>>
    /\ req[1].sleeps = <<>>


\* C32: when the body of a 2xx response does not decode, the request throws
\* the decode error in that step, with no further attempt, timer or backoff
\* wait, at whatever attempt index and with whatever retry budget left
C32_DecodeFailureNotRetried ==
    [][\A r \in Reqs :
            (/\ req[r].pc = "decode"
             /\ ~req[r].response.body.valid
             /\ req'[r] # req[r]) =>
                /\ req'[r].pc = "thrown"
                /\ req'[r].error.name = "SyntaxError"
                /\ req'[r].attempt = req[r].attempt
                /\ req'[r].attempts = req[r].attempts
                /\ req'[r].timers = req[r].timers
                /\ req'[r].sleeps = req[r].sleeps
                /\ req'[r].pendingSleeps = 0
                /\ req'[r].inflight = 0
      ]_vars

\* a request with MaxRetry retries got, on its second attempt, a 200 whose
\* body does not decode: it has thrown the decode error after two attempts
\* and one wait, with retries left
C32_Witness ==
    /\ req[1].retryCount = Num(MaxRetry)
    /\ req[1].pc = "thrown"
    /\ req[1].error.name = "SyntaxError"
    /\ req[1].attempt = 1
    /\ Len(req[1].attempts) = 2
    /\ Len(req[1].sleeps) = 1
    /\ req[1].response.status = 200
    /\ ~req[1].response.body.valid
    /\ JsLt(req[1].attempt, req[1].retryCount)


\* C33: on jiraAgileFetch a non-2xx response that ends the request (401,
\* 403, 404 and a 429 with no retry left included) throws the generic agile
\* API error with the status of the response and its parsed error text; the
\* kinds of jiraFetch for 401, 403, 404 and 429 are never thrown
C33_AgileGenericError ==
    \A r \in Reqs :
        LET q == req[r]
        IN  q.family = "agile" =>
                /\ q.error.name = "JiraApiException" =>
                        q.error.kind \notin {"AuthenticationFailed", "Forbidden",
                                             "NotFound", "RateLimited"}
                /\ (/\ q.pc = "thrown"
                    /\ q.outcomes # <<>>
                    /\ Last(q.outcomes).t = "response"
                    /\ ~ResponseOk(Last(q.outcomes).status)) =>
                        /\ q.response.status = Last(q.outcomes).status
                        /\ q.error.name = "JiraApiException"
                        /\ q.error.kind = "AgileApiError"
                        /\ q.error.status = q.response.status
                        /\ q.error.text = parseErrorResponse(q.response)

\* an agile request has failed on a 404 with a JSON error document: the
\* generic agile error with status 404 and the messages of the document
C33_Witness ==
    /\ req[1].family = "agile"
    /\ req[1].pc = "thrown"
    /\ req[1].response.status = 404
    /\ req[1].response.ctype = "application/json"
    /\ Len(ErrorMessagesOf(req[1].response.body)) > 0
    /\ req[1].error.kind = "AgileApiError"
    /\ req[1].error.status = 404
    /\ req[1].error.text.kind = "messages"


\* C34: a request runs on the configuration read when it starts: its timeout,
\* retry count, retry delay, TLS setting, URL and Authorization header are
\* those getConfig gives in the starting step, and no later step, a change of
\* the environment, a reset or a reload of the configuration included,
\* changes them; every timer armed later carries that timeout, every wait is
\* a backoff of that retry delay and the attempts never exceed that retry
\* count plus one
C34_ConfigReadAtStart ==
    [][\A r \in Reqs :
        /\ (Starts(r) /\ getConfig(cachedConfig, env).ok) =>
            LET c == RequestConfig(getConfig(cachedConfig, env).config)
            IN  /\ req'[r].timeout = c.timeout
                /\ req'[r].retryCount = c.retryCount
                /\ req'[r].retryDelay = c.retryDelay
                /\ req'[r].sslVerify = c.sslVerify
                /\ SubSeq(req'[r].url, 1, Len(c.baseUrl)) = c.baseUrl
                /\ req'[r].authorization =
                        getAuthHeader(c.username, c.password)
                /\ \A i \in 1..Len(req'[r].timers) :
                        req'[r].timers[i].ms = c.timeout
        /\ (req[r].pc # "idle" /\ req'[r].pc # "idle") =>
                /\ req'[r].timeout = req[r].timeout
                /\ req'[r].retryCount = req[r].retryCount
                /\ req'[r].retryDelay = req[r].retryDelay
                /\ req'[r].sslVerify = req[r].sslVerify
                /\ req'[r].url = req[r].url
                /\ req'[r].authorization = req[r].authorization
                /\ \A i \in 1..Len(req'[r].timers) :
                        req'[r].timers[i].ms = req[r].timeout
                /\ \A i \in (Len(req[r].sleeps) + 1)..Len(req'[r].sleeps) :
                        \E k \in Samples :
                            req'[r].sleeps[i] =
                                calculateBackoff(req[r].attempt,
                                                 req[r].retryDelay, k)
                /\ RetryCountNat(req[r]) =>
                        Len(req'[r].attempts) <= req[r].retryCount.v + 1
      ]_vars

\* a request is in its second network exchange, after one backoff wait,
\* while the cached configuration is a reloaded one with another timeout,
\* retry count, retry delay and password; its second timer carries the
\* timeout read at the start
C34_Witness ==
    /\ req[1].pc = "fetch"
    /\ Len(req[1].timers) = 2
    /\ Len(req[1].sleeps) = 1
    /\ cachedConfig # Null
    /\ cachedConfig.timeout.v # req[1].timeout
    /\ cachedConfig.retryCount # req[1].retryCount
    /\ cachedConfig.retryDelay.v # req[1].retryDelay
    /\ getAuthHeader(cachedConfig.username, cachedConfig.password)
            # req[1].authorization
    /\ req[1].timers[2].ms = req[1].timeout


\* an outcome after which the loop goes on while retries are left: a
\* retryable status, a timeout or a network failure
RetryableOutcome(o) ==
    RetryableResponse(o) \/ o.t \in {"AbortError", "TypeError"}

\* frame q's counters, timers and verdict follow from its own attempts
OwnHistory(q) ==
    /\ RetryCountNat(q) => Len(q.attempts) <= q.retryCount.v + 1
    /\ \A i \in 1..Len(q.attempts) : q.attempts[i] = i - 1
    /\ q.pc # "idle" => q.attempt = Len(q.attempts) - 1
    /\ Len(q.timers) = Len(q.attempts)
    /\ Len(q.outcomes) = Len(q.attempts) - q.inflight
    /\ \A i \in 1..Len(q.outcomes) :
            /\ q.outcomes[i].t = "AbortError" <=> q.timers[i].aborted
            /\ i < Len(q.outcomes) => RetryableOutcome(q.outcomes[i])
    /\ Len(q.sleeps) = IF q.pc = "sleep" THEN Len(q.attempts)
                       ELSE Len(q.attempts) - 1
    /\ q.pc = "returned" => OkResponse(Last(q.outcomes))
    /\ q.pc = "thrown" =>
            /\ ~OkResponse(Last(q.outcomes))
            /\ RetryableOutcome(Last(q.outcomes)) =>
                    Len(q.attempts) = q.retryCount.v + 1
    /\ q.pc = "thrown" =>
            /\ q.error = TimeoutError(q.timeout) <=>
                    Last(q.outcomes).t = "AbortError"
            /\ Last(q.outcomes).t = "response" =>
                    /\ q.error.name = "JiraApiException"
                    /\ q.error.status = Last(q.outcomes).status

\* C35: requests that interleave at their awaits are independent: a step
\* changes one frame at most; each frame makes at most retryCount+1
\* attempts, numbered 0, 1, ... by its own counter, arms one timer per
\* attempt and is aborted by its own timer only; it goes on after its own
\* retryable outcomes and ends on its own last outcome; and two requests of
\* the same family and configuration that met the same outcomes end alike
C35_RequestsIndependent ==
    [][/\ Cardinality({r \in Reqs : req'[r] # req[r]}) <= 1
       /\ \A r \in Reqs : req'[r].pc # "idle" => OwnHistory(req'[r])
       /\ \A r1, r2 \in Reqs :
            (/\ Terminated(req'[r1])
             /\ Terminated(req'[r2])
             /\ req'[r1].family = req'[r2].family
             /\ req'[r1].timeout = req'[r2].timeout
             /\ req'[r1].retryCount = req'[r2].retryCount
             /\ req'[r1].retryDelay = req'[r2].retryDelay
             /\ req'[r1].outcomes = req'[r2].outcomes
             /\ req'[r1].response = req'[r2].response) =>
                /\ req'[r1].pc = req'[r2].pc
                /\ req'[r1].result = req'[r2].result
                /\ req'[r1].error = req'[r2].error
      ]_vars

\* two requests with one retry each are under way: the first waits after a
\* 503 on attempt 0 while the second, whose first attempt timed out, is in
\* its second network exchange
C35_Witness ==
    /\ req[1].retryCount = Num(1)
    /\ req[2].retryCount = Num(1)
    /\ req[1].pc = "sleep"
    /\ req[1].attempt = 0
    /\ req[1].outcomes = <<Responded(503)>>
    /\ req[2].pc = "fetch"
    /\ req[2].attempt = 1
    /\ req[2].outcomes = <<Threw("AbortError")>>


\* C36: when the producer of a withCache call rejects, the call rejects
\* without a result, the store and the record of the last writes are as
\* they were, the key of the call included, and the frame is gone; if the
\* rejection follows the call directly a get of the key still gives
\* undefined, and a withCache call made after a rejection for a key whose
\* get gives undefined invokes its producer
C36_ProducerFailure ==
    [][/\ obs'.last.op = "reject" =>
            /\ obs'.last.frame.pc = "thrown"
            /\ obs'.last.frame.result = NoResult
            /\ obs'.last.value = Undefined
            /\ store' = store
            /\ obs'.written = obs.written
            /\ \E c \in Callers :
                    /\ wc[c].pc = "awaiting"
                    /\ wc[c].key = obs'.last.key
                    /\ wc'[c] = IdleCaller
            /\ (obs.last.op = "call" /\ obs.last.key = obs'.last.key) =>
                    /\ cacheGet(store', obs'.last.key, now').value = Undefined
                    /\ \A t \in TtlArgs :
                        LET w == withCacheCall(store', obs'.last.key, t, now')
                        IN  w.frame.pc = "awaiting" /\ w.frame.calls = 1
       /\ (/\ obs.last.op = "reject"
           /\ obs'.last.op = "call"
           /\ obs'.last.key = obs.last.key
           /\ cacheGet(store, obs.last.key, now).value = Undefined) =>
                /\ obs'.last.frame.pc = "awaiting"
                /\ obs'.last.frame.calls = 1
                /\ obs'.last.frame.result = NoResult
      ]_vars

\* the producer of a withCache call for k1 has just rejected while k2 holds
\* an entry: the call has thrown, k1 has no entry and no write on record
C36_Witness ==
    /\ obs.last.op = "reject"
    /\ obs.last.key = "k1"
    /\ obs.last.frame.pc = "thrown"
    /\ obs.last.frame.calls = 1
    /\ ~store["k1"].has
    /\ store["k2"].has
    /\ obs.written["k1"] = NoWrite


\* every entry of the store expires at the instant of its last write plus
\* the time-to-live of that write
ExpiresAsWritten ==
    \A k \in Keys :
        store[k].has =>
            /\ obs.written[k].has
            /\ store[k].expiresAt = Num(ExpiryOf(obs.written[k]))

\* C37: reads never extend the life of an entry: a get and the get of a
\* withCache call leave every entry they keep as it was, its expiry
\* included; an entry appears or changes its expiry only in a set of its
\* key, made directly or when the producer of a withCache miss resolves; so
\* every entry expires at the instant of its last write plus the
\* time-to-live of that write, however often it was read
C37_ReadsKeepExpiry ==
    [][/\ obs'.last.op \in {"get", "call"} =>
            /\ \A k \in Keys : store'[k].has => store'[k] = store[k]
            /\ obs'.written = obs.written
            /\ obs'.last.value # Undefined =>
                    store'[obs'.last.key] = store[obs'.last.key]
       /\ \A k \in Keys :
            (store'[k].has /\ (~store[k].has \/ store'[k].expiresAt
                                                    # store[k].expiresAt)) =>
                /\ obs'.last.op \in {"set", "resolve"}
                /\ obs'.last.key = k
                /\ obs'.written[k].at = now'
       /\ ExpiresAsWritten'
      ]_vars

\* the entry of k1, stored at 0 for one second, was read at its expiry
\* instant by a withCache call that returned it: it still expires at 1000
C37_Witness ==
    /\ obs.last.op = "call"
    /\ obs.last.key = "k1"
    /\ obs.last.frame.pc = "returned"
    /\ obs.last.frame.hit
    /\ obs.last.value = Json("b1")
    /\ now = 1000
    /\ obs.written["k1"] = Write(Json("b1"), 0, Num(1))
    /\ store["k1"] = CacheEntry(Json("b1"), Num(1000))


\* the three required variables are set and not empty
RequiredSet(e) ==
    /\ ~Falsy(e.JIRA_BASE_URL)
    /\ ~Falsy(e.JIRA_USERNAME)
    /\ ~Falsy(e.JIRA_PASSWORD)

\* the step is a call of getConfig, made directly or by isProjectAllowed
CallsGetConfig == cfgObs'.op \in {"getConfig", "isProjectAllowed"}

\* C38: a call of getConfig that fails on a missing required value found
\* nothing cached, caches nothing and leaves the environment as it was; the
\* call that follows it with the environment unchanged fails with the same
\* error; and a call made with nothing cached, as after a failure, and the
\* required values set succeeds, returns the configuration built from the
\* environment of that moment and caches it
C38_FailureCachesNothing ==
    [][CallsGetConfig =>
        /\ ~cfgObs'.ok =>
                /\ cachedConfig = Null
                /\ cachedConfig' = Null
                /\ env' = env
                /\ ~RequiredSet(env)
                /\ cfgObs'.config = Null
                /\ cfgObs'.error \in {MissingError("JIRA_BASE_URL"),
                                      MissingError("JIRA_USERNAME"),
                                      MissingError("JIRA_PASSWORD")}
                /\ Falsy(env[cfgObs'.error.variable])
        /\ (cfgObs.op \in {"getConfig", "isProjectAllowed"} /\ ~cfgObs.ok) =>
                /\ ~cfgObs'.ok
                /\ cfgObs'.error = cfgObs.error
        /\ (cachedConfig = Null /\ RequiredSet(env)) =>
                /\ cfgObs'.ok
                /\ cfgObs'.config = BuildConfig(env)
                /\ cachedConfig' = BuildConfig(env)
      ]_vars

\* the call of getConfig just made, the first since the configuration was
\* reset, has failed on an empty password: nothing is cached
C38_Witness ==
    /\ cfgObs.op = "getConfig"
    /\ ~cfgObs.ok
    /\ cfgObs.error = MissingError("JIRA_PASSWORD")
    /\ cfgObs.afterReset
    /\ env.JIRA_PASSWORD = Str(<<>>)
    /\ cachedConfig = Null

====
